---- MODULE Spec2Model ----
(***************************************************************************)
(* BotFrameworkAdapter (libraries/botbuilder/src/botFrameworkAdapter.ts):  *)
(* the turn pipeline (processActivity), the outbound dispatcher            *)
(* (sendActivities) and the request normalizer (parseRequest), as a state  *)
(* machine whose steps are the pieces of code between two awaits.          *)
(***************************************************************************)
EXTENDS Integers, Sequences, FiniteSets, TLC

\* ------------------------------------------------------------------ bounds
\* Turns that can be in flight on the one adapter.
Turns == {1}
\* Middleware a bot registers with use(), after the adapter's own.
MaxUserMiddleware == 1
\* Activities in one sendActivities call.
MaxBatch == 2

\* --------------------------------------------------------- JavaScript values
\* A value is its kind (what typeof and truthiness look at) and its content.
Val(k, v) == [k |-> k, v |-> v]
Undefined == Val("undefined", "")
Null == Val("null", "")
False == Val("boolean", "false")
True == Val("boolean", "true")
Num(s) == Val("number", s)
Str(s) == Val("string", s)
Obj(s) == Val("object", s)
Arr(s) == Val("array", s)
DateOf(s) == Val("date", s)
Err(m) == Val("Error", m)
TypeErr(m) == Val("TypeError", m)
SyntaxErr(m) == Val("SyntaxError", m)

IsError(x) == x.k \in {"Error", "TypeError", "SyntaxError"}

\* typeof x
TypeOf(x) ==
    CASE x.k = "undefined" -> "undefined"
      [] x.k = "boolean" -> "boolean"
      [] x.k = "number" -> "number"
      [] x.k = "string" -> "string"
      [] OTHER -> "object"

\* if (x): undefined, null, false, 0 and '' are falsy
Truthy(x) ==
    ~ \/ x.k \in {"undefined", "null"}
      \/ x = False
      \/ x = Num("0")
      \/ x = Str("")

\* x.toString() for a value that has the method; an Error prints as
\* "<name>: <message>"
toString(x) ==
    CASE x.k = "string" -> x.v
      [] x.k \in {"boolean", "number"} -> x.v
      [] IsError(x) -> x.k \o ": " \o x.v
      [] x.k = "array" -> x.v
      [] x.k = "date" -> x.v
      [] OTHER -> "[object Object]"

\* undefined and null have no toString: calling it is a TypeError
HasToString(x) == x.k \notin {"undefined", "null"}
NoToStringError == TypeErr("Cannot read property 'toString' of undefined")

\* ------------------------------------------------------------- activities
\* An inbound activity object. type and timestamp are JavaScript values (the
\* normalizer applies typeof to them); the addressing fields are strings, with
\* "" for an absent field (absent and '' are both falsy).
Activity(type, timestamp, channelId, tenant) ==
    [k |-> "object", v |-> "activity",
     type |-> type, timestamp |-> timestamp,
     channelId |-> channelId, serviceUrl |-> "https://" \o channelId,
     fromId |-> "user", conversationId |-> "conv",
     tenantId |-> "", channelDataTenant |-> tenant]

INVOKE_RESPONSE_KEY == "Symbol(invokeResponse)"

Stamp == "2019-03-01T12:00:00Z"

\* Outbound activities: what a bot passes to sendActivities. value is a
\* JavaScript value: the pause of a delay, the InvokeResponse of an
\* invokeResponse.
Outbound(type, value, channelId, serviceUrl, conversationId, replyToId) ==
    [type |-> type, value |-> value, channelId |-> channelId,
     serviceUrl |-> serviceUrl, conversation |-> TRUE,
     conversationId |-> conversationId, replyToId |-> replyToId]

\* The same activity without its conversation object.
WithoutConversation(activity) ==
    [activity EXCEPT !.conversation = FALSE, !.conversationId = ""]

\* An InvokeResponse: status and optional body.
InvokeResponse(s, b) ==
    [k |-> "object", v |-> "InvokeResponse", status |-> s, body |-> b]

\* Bodies a transport can hand over: well-formed activities ...
GoodBodies ==
    { Activity(Str("message"), Str(Stamp), "emulator", ""),
      Activity(Str("message"), DateOf(Stamp), "emulator", ""),
      Activity(Str("invoke"), Undefined, "msteams", "tenant-1") }

\* ... and bodies that are not an object or carry no string type.
BadBodies ==
    { Null, False, Num("0"), Str(""), Str("hello"), Num("7"), Arr("[]"),
      Activity(Undefined, Undefined, "emulator", ""),
      Activity(Num("1"), Str(Stamp), "emulator", "") }

Bodies == GoodBodies \cup BadBodies

\* The raw request stream: the JSON text of a body, text that is not JSON, or
\* a stream the transport has already read to its end (no event will fire).
Text(doc) == [k |-> "text", wellFormed |-> TRUE, doc |-> doc]
Garbage == [k |-> "text", wellFormed |-> FALSE, doc |-> Undefined]
Consumed == [k |-> "consumed", wellFormed |-> FALSE, doc |-> Undefined]

\* The JSON document of a value, as a client serializes it: a Date becomes
\* its ISO string; the other values of the model are their own document (an
\* undefined field is left out, and reads as undefined again).
JSONstringify(value) ==
    IF value.k = "object" /\ value.v = "activity" /\ value.timestamp.k = "date"
    THEN [value EXCEPT !.timestamp = Str(value.timestamp.v)]
    ELSE value

\* JSON.parse(requestData)
JSONparse(text) ==
    IF text.wellFormed
    THEN [ok |-> TRUE, value |-> text.doc, err |-> Undefined]
    ELSE [ok |-> FALSE, value |-> Undefined,
          err |-> SyntaxErr("Unexpected end of JSON input")]

\* A request: its pre-parsed body (undefined when the transport parsed
\* nothing) and its stream.
Requests ==
    { [body |-> b, stream |-> Consumed] : b \in Bodies }
    \cup { [body |-> Undefined, stream |-> Text(JSONstringify(b))] : b \in Bodies }
    \cup { [body |-> Undefined, stream |-> Garbage] }

\* ------------------------------------------------------------ parseRequest
\* (mutant) the check of activity.type is missing
returnActivityAnyType(activity) ==
    IF activity.k # "object" \/ activity.v # "activity"
    THEN [ok |-> FALSE, activity |-> Undefined,
          err |-> Err("BotFrameworkAdapter.parseRequest(): invalid request body.")]
    ELSE [ok |-> TRUE, activity |-> activity, err |-> Undefined]

\* returnActivity(activity): the checks and the date coercion
returnActivity(activity) ==
    IF TypeOf(activity) # "object"
    THEN [ok |-> FALSE, activity |-> Undefined,
          err |-> Err("BotFrameworkAdapter.parseRequest(): invalid request body.")]
    ELSE IF activity.k # "object" \/ activity.v # "activity"
    THEN \* null, an array: reading .type of null throws, of an array gives undefined
         [ok |-> FALSE, activity |-> Undefined,
          err |-> IF activity.k = "null"
                  THEN TypeErr("Cannot read property 'type' of null")
                  ELSE Err("BotFrameworkAdapter.parseRequest(): missing activity type.")]
    ELSE IF TypeOf(activity.type) # "string"
    THEN [ok |-> FALSE, activity |-> Undefined,
          err |-> Err("BotFrameworkAdapter.parseRequest(): missing activity type.")]
    ELSE [ok |-> TRUE,
          activity |-> IF TypeOf(activity.timestamp) = "string"
                       THEN [activity EXCEPT !.timestamp = DateOf(activity.timestamp.v)]
                       ELSE activity,
          err |-> Undefined]

\* ------------------------------------------------------------------- state
VARIABLES
    middleware,     \* adapter: the registered middleware, in registration order
    settings,       \* adapter: this.settings, the constructor's merged settings
    isEmulatingOAuthCards,  \* adapter: the field of that name
    tok,            \* adapter: the token-broker operation last begun
    emulated,       \* history: emulateOAuthCards has been called with true
    pc,             \* per turn: where the processActivity call stands
    req,            \* per turn: the WebRequest (body, stream)
    parsed,         \* per turn: how the parseRequest promise settled
    verdict,        \* per turn: what the request authenticator answered
    caught,         \* per turn: the error processActivity's catch block got
    request,        \* per turn: the parsed activity (the object that is also
                    \* req.body and context.activity)
    status,         \* per turn: processActivity's local `status` (0: unset)
    body,           \* per turn: processActivity's local `body`
    res,            \* per turn: the calls made on the WebResponse, in order
    raised,         \* per turn: the error processActivity rejected with
    authCalls,      \* per turn: calls made to the request authenticator
    built,          \* per turn: createContext has returned a context
    revoked,        \* per turn: the context proxy has been revoked
    turnState,      \* per turn: context.turnState.get(INVOKE_RESPONSE_KEY)
    mw,             \* per turn: the middleware whose edge runs next
    edges,          \* per turn: the edges run so far, in order
    thrown,         \* per turn: the error the middleware chain rejected with
    snd,            \* per turn: the sendActivities call in progress
    sendCalls,      \* per turn: sendActivities calls begun: 0, 1, 2 for more
    emitted,        \* per turn: invokeResponse activities cached: 0, 1, 2 for more
    lateUse,        \* per turn: outcome of a context operation after the turn
    proactive,      \* per turn: the proactive method running it, or "none"
    reference,      \* per turn: the conversation reference that method was given
    created         \* per turn: the create-conversation exchange with the gateway

adapterVars == <<middleware, settings, isEmulatingOAuthCards>>
tokenVars == <<tok, emulated>>
callRest == <<req, parsed, verdict, caught, request, status, body, res, raised,
              authCalls>>
callVars == <<pc, callRest>>
contextVars == <<built, revoked, turnState, lateUse>>
chainVars == <<mw, edges, thrown>>
sendVars == <<snd, sendCalls, emitted>>
proactiveVars == <<proactive, reference, created>>
vars == <<adapterVars, callVars, contextVars, chainVars, sendVars, proactiveVars,
          tokenVars>>

\* No sendActivities call in progress.
NoSend == [batch |-> <<>>, i |-> 0, responses |-> <<>>, calls |-> <<>>,
           timer |-> 0, elapsed |-> 0, resendOf |-> -1,
           result |-> "none", err |-> Undefined]

\* (mutant) a constructor that registers no middleware of its own
ConstructedEmpty == <<>>

\* The middleware list the constructor leaves: it registers the adapter's own
\* tenant-relocation middleware with this.use(...).
Constructed == <<"tenantRelocation">>

\* The settings a bot constructs its adapter with, after the constructor's
\* merge { appId: '', appPassword: '', ...settings }: an absent appId or
\* appPassword is the empty string; an absent oAuthEndpoint or channelService
\* is written "" here, which the code's truthiness tests treat as absent.
GovernmentChannelService == "https://botframework.azure.us"
Settings ==
    [appId : {"", "app"}, appPassword : {"", "secret"},
     oAuthEndpoint : {"", "https://oauth.custom"},
     channelService : {"", GovernmentChannelService, "https://other.cloud"}]

\* new BotFrameworkAdapter() with no settings of the caller's
DefaultSettings ==
    [appId |-> "", appPassword |-> "", oAuthEndpoint |-> "", channelService |-> ""]

\* No token-broker operation begun.
NoToken ==
    [op |-> "none", phase |-> "none", activity |-> Undefined, target |-> Undefined,
     userId |-> Undefined, connectionName |-> Undefined, emulate |-> FALSE,
     call |-> Undefined, reply |-> Undefined, result |-> Undefined,
     err |-> Undefined]

\* The adapter after its constructor, for the calls that will be made on it;
\* no request received yet.
Constructor(s, calls) ==
    /\ settings = s
    /\ isEmulatingOAuthCards = FALSE
    /\ tok = NoToken
    /\ emulated = FALSE
    /\ middleware = Constructed
    /\ pc = [t \in calls |-> "idle"]
    /\ req = [t \in calls |-> [body |-> Undefined, stream |-> Consumed]]
    /\ parsed = [t \in calls |-> [ok |-> FALSE, activity |-> Undefined, err |-> Undefined]]
    /\ verdict = [t \in calls |-> "none"]
    /\ caught = [t \in calls |-> Undefined]
    /\ request = [t \in calls |-> Undefined]
    /\ status = [t \in calls |-> 0]
    /\ body = [t \in calls |-> Undefined]
    /\ res = [t \in calls |-> <<>>]
    /\ raised = [t \in calls |-> Undefined]
    /\ authCalls = [t \in calls |-> 0]
    /\ built = [t \in calls |-> FALSE]
    /\ revoked = [t \in calls |-> FALSE]
    /\ turnState = [t \in calls |-> Undefined]
    /\ mw = [t \in calls |-> 0]
    /\ edges = [t \in calls |-> <<>>]
    /\ thrown = [t \in calls |-> Undefined]
    /\ snd = [t \in calls |-> NoSend]
    /\ sendCalls = [t \in calls |-> 0]
    /\ emitted = [t \in calls |-> 0]
    /\ lateUse = [t \in calls |-> "none"]
    /\ proactive = [t \in calls |-> "none"]
    /\ reference = [t \in calls |-> Undefined]
    /\ created = [t \in calls |-> Undefined]

\* The adapter a bot constructs without settings.
Init == Constructor(DefaultSettings, Turns)

\* The adapter a bot constructs with settings of its own.
InitTokens == \E s \in Settings : Constructor(s, Turns)

\* BotAdapter.use(): a bot registers one more middleware, before it serves.
Use ==
    /\ \A t \in Turns : pc[t] = "idle"
    /\ Len(middleware) < Len(Constructed) + MaxUserMiddleware
    /\ middleware' = Append(middleware, "user")
    /\ UNCHANGED <<settings, isEmulatingOAuthCards, tokenVars>>
    /\ UNCHANGED <<callVars, contextVars, chainVars, sendVars, proactiveVars>>

\* --------------------------------------------------------- processActivity
\* (mutant) body = err.message
CatchBodyMessage(err) == Str(err.v)

\* (mutant) the status of a failed authentication is set before the parse
StatusOfAuthFirst(phase) ==
    CASE phase = "parse" -> 401
      [] phase = "authenticate" -> 401
      [] OTHER -> 500

\* The status processActivity sets on entering a phase, the one a failure of
\* that phase is answered with: status = 400, status = 401, status = 500.
StatusOf(phase) ==
    CASE phase = "parse" -> 400
      [] phase = "authenticate" -> 401
      [] OTHER -> 500

\* The catch block: body = err.toString(); the response is written next.
CatchBody(err) == Str(toString(err))

Caught(t, err) ==
    /\ caught' = [caught EXCEPT ![t] = err]
    /\ body' = [body EXCEPT ![t] = CatchBody(err)]
    /\ pc' = [pc EXCEPT ![t] = "respond"]

\* processActivity is called: status = 400 and parseRequest(req) starts. A
\* truthy req.body is normalized at once; otherwise the 'data' and 'end'
\* listeners are registered and the call waits for the stream.
Receive(t, r) ==
    /\ pc[t] = "idle"
    /\ status' = [status EXCEPT ![t] = StatusOf("parse")]
    /\ IF Truthy(r.body)
       THEN LET got == returnActivity(r.body)
            IN /\ parsed' = [parsed EXCEPT ![t] = got]
               /\ req' = [req EXCEPT ![t] =
                            IF got.ok THEN [r EXCEPT !.body = got.activity] ELSE r]
               /\ pc' = [pc EXCEPT ![t] = "parsed"]
       ELSE /\ req' = [req EXCEPT ![t] = r]
            /\ pc' = [pc EXCEPT ![t] = "stream"]
            /\ UNCHANGED parsed
    /\ UNCHANGED <<verdict, caught, request, body, res, raised, authCalls>>
    /\ UNCHANGED <<adapterVars, tokenVars, proactiveVars, contextVars, chainVars, sendVars>>

\* processActivity(req, res, logic) is called with any request.
ProcessActivity(t) ==
    /\ pc[t] = "idle"
    /\ \E r \in Requests : Receive(t, r)

\* The stream delivers its chunks and ends: req.body = JSON.parse(requestData)
\* and the result is normalized. A stream already read to its end fires nothing.
StreamEnd(t) ==
    /\ pc[t] = "stream"
    /\ req[t].stream.k = "text"
    /\ LET json == JSONparse(req[t].stream)
           got == IF json.ok THEN returnActivity(json.value)
                  ELSE [ok |-> FALSE, activity |-> Undefined, err |-> json.err]
       IN /\ parsed' = [parsed EXCEPT ![t] = got]
          /\ req' = [req EXCEPT ![t] =
                       [body |-> IF got.ok THEN got.activity
                                 ELSE IF json.ok THEN json.value ELSE Undefined,
                        stream |-> Consumed]]
    /\ pc' = [pc EXCEPT ![t] = "parsed"]
    /\ UNCHANGED <<verdict, caught, request, status, body, res, raised, authCalls>>
    /\ UNCHANGED <<adapterVars, tokenVars, proactiveVars, contextVars, chainVars, sendVars>>

\* await parseRequest(req) settles: a rejection is caught with status 400;
\* otherwise status = 401 and the authenticator is called.
AfterParse(t) ==
    /\ pc[t] = "parsed"
    /\ IF parsed[t].ok
       THEN /\ request' = [request EXCEPT ![t] = parsed[t].activity]
            /\ status' = [status EXCEPT ![t] = StatusOf("authenticate")]
            /\ authCalls' = [authCalls EXCEPT ![t] = @ + 1]
            /\ pc' = [pc EXCEPT ![t] = "auth"]
            /\ UNCHANGED <<body, caught>>
       ELSE /\ Caught(t, parsed[t].err)
            /\ UNCHANGED <<request, status, authCalls>>
    /\ UNCHANGED <<req, parsed, verdict, res, raised>>
    /\ UNCHANGED <<adapterVars, tokenVars, proactiveVars, contextVars, chainVars, sendVars>>

\* authenticateRequest: what JwtTokenValidation.authenticateRequest did
\* ("authenticated", "notAuthenticated": the claims it returned; "fails": it
\* threw), turned into the error authenticateRequest throws, if any.
Verdicts == {"authenticated", "notAuthenticated", "fails"}

\* (mutant) the claims' isAuthenticated flag is not looked at
authenticateRequestTrustsClaims(v) ==
    IF v = "fails" THEN Err("Invalid or missing JWT token") ELSE Undefined

authenticateRequest(v) ==
    CASE v = "fails" -> Err("Invalid or missing JWT token")
      [] v = "notAuthenticated" ->
            Err("Unauthorized Access. Request is not authorized")
      [] OTHER -> Undefined

\* await this.authenticateRequest(...) settles: a failure is caught with status
\* 401; otherwise status = 500, createContext(request) builds the context (a
\* derived adapter's createContext may throw) and runMiddleware starts.
Authenticate(t, v, contextOk) ==
    /\ pc[t] = "auth"
    /\ verdict' = [verdict EXCEPT ![t] = v]
    /\ LET err == authenticateRequest(v)
       IN IF err # Undefined
          THEN /\ Caught(t, err)
               /\ UNCHANGED <<status, contextVars, chainVars>>
          ELSE /\ status' = [status EXCEPT ![t] = StatusOf("run")]
               /\ IF contextOk
                  THEN /\ built' = [built EXCEPT ![t] = TRUE]
                       /\ mw' = [mw EXCEPT ![t] = 1]
                       /\ pc' = [pc EXCEPT ![t] = "leading"]
                       /\ UNCHANGED <<body, caught, revoked, turnState, lateUse, edges,
                                      thrown>>
                  ELSE /\ Caught(t, Err("createContext failed"))
                       /\ UNCHANGED <<contextVars, chainVars>>
    /\ UNCHANGED <<req, parsed, request, res, raised, authCalls>>
    /\ UNCHANGED <<adapterVars, tokenVars, proactiveVars, sendVars>>

\* ------------------------------------------------------- the middleware chain
\* The adapter's own middleware (registered in the constructor): on msteams,
\* copy channelData.tenant.id to conversation.tenantId when the latter is empty.
tenantRelocation(activity) ==
    IF /\ activity.channelId = "msteams"
       /\ activity.conversationId # ""
       /\ activity.tenantId = ""
       /\ activity.channelDataTenant # ""
    THEN [activity EXCEPT !.tenantId = activity.channelDataTenant]
    ELSE activity

\* What a middleware does on an edge. The adapter's own always calls next and
\* has no code after it.
Choices(name) ==
    IF name = "tenantRelocation" THEN {"next"} ELSE {"next", "return", "throw"}

\* The one that follows middleware k.
NextMiddleware(k) == k + 1
\* The middleware that resumes when middleware k (or, for k past the last, the
\* logic) has returned.
ResumedAfter(k) == k - 1
\* Control is back at middleware k; with none left the chain has resolved.
Unwinding(k) == IF k < 1 THEN "unwound" ELSE "trailing"

\* Leading edge of middleware mw[t]: it calls next, returns without calling
\* next (the turn is intercepted), or throws.
Leading(t, choice) ==
    /\ pc[t] = "leading"
    /\ mw[t] <= Len(middleware)
    /\ choice \in Choices(middleware[mw[t]])
    /\ edges' = [edges EXCEPT ![t] = Append(@, <<"lead", mw[t]>>)]
    /\ request' = [request EXCEPT ![t] =
                     IF middleware[mw[t]] = "tenantRelocation"
                     THEN tenantRelocation(@) ELSE @]
    /\ req' = IF proactive[t] = "none"
              THEN [req EXCEPT ![t].body = request'[t]]
              ELSE req
    /\ CASE choice = "next" ->
              /\ mw' = [mw EXCEPT ![t] = NextMiddleware(@)]
              /\ UNCHANGED <<pc, thrown>>
         [] choice = "return" ->
              /\ mw' = [mw EXCEPT ![t] = ResumedAfter(@)]
              /\ pc' = [pc EXCEPT ![t] = Unwinding(ResumedAfter(mw[t]))]
              /\ UNCHANGED thrown
         [] OTHER ->
              /\ thrown' = [thrown EXCEPT ![t] = Err("middleware failed")]
              /\ pc' = [pc EXCEPT ![t] = "unwound"]
              /\ UNCHANGED mw
    /\ UNCHANGED <<parsed, verdict, caught, status, body, res, raised, authCalls>>
    /\ UNCHANGED <<adapterVars, tokenVars, proactiveVars, contextVars, sendVars>>

\* The last middleware called next: the logic is invoked.
CallLogic(t) ==
    /\ pc[t] = "leading"
    /\ mw[t] > Len(middleware)
    /\ edges' = [edges EXCEPT ![t] = Append(@, <<"logic", 0>>)]
    /\ pc' = [pc EXCEPT ![t] = "logic"]
    /\ UNCHANGED <<mw, thrown>>
    /\ UNCHANGED <<adapterVars, tokenVars, proactiveVars, callRest, contextVars, sendVars>>

\* The logic returns normally: the innermost middleware resumes.
LogicReturn(t) ==
    /\ pc[t] = "logic"
    /\ snd[t].result = "none"
    /\ mw' = [mw EXCEPT ![t] = ResumedAfter(@)]
    /\ pc' = [pc EXCEPT ![t] = Unwinding(ResumedAfter(mw[t]))]
    /\ snd' = [snd EXCEPT ![t] = NoSend]
    /\ UNCHANGED <<edges, thrown, sendCalls, emitted>>
    /\ UNCHANGED <<adapterVars, tokenVars, proactiveVars, callRest>>
    /\ UNCHANGED contextVars

\* The logic throws an Error: the chain rejects, no trailing edge runs.
LogicThrow(t) ==
    /\ pc[t] = "logic"
    /\ snd[t].result = "none"
    /\ thrown' = [thrown EXCEPT ![t] = Err("logic failed")]
    /\ pc' = [pc EXCEPT ![t] = "unwound"]
    /\ UNCHANGED <<mw, edges, sendVars>>
    /\ UNCHANGED <<adapterVars, tokenVars, proactiveVars, callRest, contextVars>>

\* Trailing edge of middleware mw[t]: next() has returned to it; it returns or
\* throws.
Trailing(t, choice) ==
    /\ pc[t] = "trailing"
    /\ mw[t] >= 1
    /\ choice \in Choices(middleware[mw[t]]) \ {"return"}
    /\ edges' = [edges EXCEPT ![t] = Append(@, <<"trail", mw[t]>>)]
    /\ IF choice = "next"
       THEN /\ mw' = [mw EXCEPT ![t] = ResumedAfter(@)]
            /\ pc' = [pc EXCEPT ![t] = Unwinding(ResumedAfter(mw[t]))]
            /\ UNCHANGED thrown
       ELSE /\ thrown' = [thrown EXCEPT ![t] = Err("middleware failed")]
            /\ pc' = [pc EXCEPT ![t] = "unwound"]
            /\ UNCHANGED mw
    /\ UNCHANGED <<adapterVars, tokenVars, proactiveVars, callRest, contextVars, sendVars>>

\* (mutant) the proxy is revoked only when the chain resolved
RevokedOnSuccess(err) == err = Undefined

\* runMiddleware settles: whether the chain resolved or rejected with err, the
\* context proxy handed to middleware and logic is revoked.
Revoked(err) == TRUE

RunMiddlewareSettled(t) ==
    /\ pc[t] = "unwound"
    /\ revoked' = [revoked EXCEPT ![t] = Revoked(thrown[t])]
    /\ pc' = [pc EXCEPT ![t] = "resumed"]
    /\ UNCHANGED <<built, turnState, lateUse>>
    /\ UNCHANGED <<adapterVars, tokenVars, proactiveVars, callRest, chainVars, sendVars>>

\* (mutant) the cached body is dropped
OutcomeStatusOnly(activity, invokeResponse) ==
    IF activity.type = Str("invoke")
    THEN IF invokeResponse # Undefined /\ Truthy(invokeResponse.value)
         THEN [status |-> invokeResponse.value.status, body |-> Undefined]
         ELSE [status |-> 501, body |-> Undefined]
    ELSE [status |-> 200, body |-> Undefined]

\* (mutant) a cached invokeResponse is used whatever the inbound activity is
OutcomeAnyType(activity, invokeResponse) ==
    IF invokeResponse # Undefined /\ Truthy(invokeResponse.value)
    THEN [status |-> invokeResponse.value.status,
          body |-> invokeResponse.value.body]
    ELSE IF activity.type = Str("invoke")
    THEN [status |-> 501, body |-> Undefined]
    ELSE [status |-> 200, body |-> Undefined]

\* (mutant) an invoke turn without a cached response is answered like any other
OutcomeDefaultOk(activity, invokeResponse) ==
    IF /\ activity.type = Str("invoke")
       /\ invokeResponse # Undefined
       /\ Truthy(invokeResponse.value)
    THEN [status |-> invokeResponse.value.status,
          body |-> invokeResponse.value.body]
    ELSE [status |-> 200, body |-> Undefined]

\* The status and body of a turn whose middleware chain resolved (lines
\* 613-625): for an invoke activity, those of the cached invokeResponse, or
\* 501 without one; 200 otherwise.
Outcome(activity, invokeResponse) ==
    IF activity.type = Str("invoke")
    THEN IF invokeResponse # Undefined /\ Truthy(invokeResponse.value)
         THEN [status |-> invokeResponse.value.status,
               body |-> invokeResponse.value.body]
         ELSE [status |-> 501, body |-> Undefined]
    ELSE [status |-> 200, body |-> Undefined]

\* (mutant) one cache on the adapter, shared by the contexts of every call
ContextOfAdapter(t) == 1

\* The context whose turnState a call reads and writes: the one createContext
\* built for that call (const context = this.createContext(request)), handed
\* to the logic and from it to sendActivities.
ContextOf(t) == t

\* await this.runMiddleware(...) settles: a rejection is caught (status stays
\* 500); otherwise the outcome is computed.
AfterMiddleware(t) ==
    /\ pc[t] = "resumed"
    /\ IF thrown[t] # Undefined
       THEN /\ Caught(t, thrown[t])
            /\ UNCHANGED status
       ELSE LET out == Outcome(request[t], turnState[ContextOf(t)])
            IN /\ status' = [status EXCEPT ![t] = out.status]
               /\ body' = [body EXCEPT ![t] = out.body]
               /\ pc' = [pc EXCEPT ![t] = "respond"]
               /\ UNCHANGED caught
    /\ UNCHANGED <<req, parsed, verdict, request, res, raised, authCalls>>
    /\ UNCHANGED <<adapterVars, tokenVars, proactiveVars, contextVars, chainVars, sendVars>>

\* (mutant) the response is ended before its body is sent
WrittenEndFirst(st, b) ==
    <<[op |-> "status", arg |-> st, val |-> Undefined],
      [op |-> "end", arg |-> 0, val |-> Undefined]>>
    \o (IF Truthy(b) THEN <<[op |-> "send", arg |-> 0, val |-> b]>> ELSE <<>>)

\* The response: res.status(status); if (body) res.send(body); res.end()
Written(st, b) ==
    <<[op |-> "status", arg |-> st, val |-> Undefined]>>
    \o (IF Truthy(b) THEN <<[op |-> "send", arg |-> 0, val |-> b]>> ELSE <<>>)
    \o <<[op |-> "end", arg |-> 0, val |-> Undefined]>>

Respond(t) ==
    /\ pc[t] = "respond"
    /\ res' = [res EXCEPT ![t] = @ \o Written(status[t], body[t])]
    /\ pc' = [pc EXCEPT ![t] = "check"]
    /\ UNCHANGED <<req, parsed, verdict, caught, request, status, body, raised,
                   authCalls>>
    /\ UNCHANGED <<adapterVars, tokenVars, proactiveVars, contextVars, chainVars, sendVars>>

\* The error check after the response (lines 636-639): for status >= 400,
\* body.toString() is evaluated (a TypeError when body is undefined) and
\* new Error(body.toString()) is thrown.
\* (mutant) if (status >= 400 && body)
RethrownWhenBody(st, b) ==
    IF st >= 400 /\ Truthy(b) THEN Err(toString(b)) ELSE Undefined

\* (mutant) the error is raised only when the try block threw
RethrownWhenCaught(st, b) ==
    IF st >= 400 /\ \E t \in DOMAIN pc : pc[t] = "check" /\ caught[t] # Undefined
    THEN IF HasToString(b) THEN Err(toString(b)) ELSE NoToStringError
    ELSE Undefined

Rethrown(st, b) ==
    IF st >= 400
    THEN IF HasToString(b) THEN Err(toString(b)) ELSE NoToStringError
    ELSE Undefined

CheckError(t) ==
    /\ pc[t] = "check"
    /\ raised' = [raised EXCEPT ![t] = Rethrown(status[t], body[t])]
    /\ pc' = [pc EXCEPT ![t] =
                IF Rethrown(status[t], body[t]) = Undefined
                THEN "resolved" ELSE "rejected"]
    /\ UNCHANGED <<req, parsed, verdict, caught, request, status, body, res,
                   authCalls>>
    /\ UNCHANGED <<adapterVars, tokenVars, proactiveVars, contextVars, chainVars, sendVars>>

\* Code that kept the context of a finished turn (an un-awaited async call)
\* uses it: the operation throws on a revoked proxy and succeeds otherwise.
LateContextUse(t) ==
    /\ pc[t] \in {"resumed", "respond", "check", "resolved", "rejected"}
    /\ built[t]
    /\ lateUse[t] = "none"
    /\ lateUse' = [lateUse EXCEPT ![t] =
                     IF revoked[t] THEN "TypeError" ELSE "succeeded"]
    /\ UNCHANGED <<built, revoked, turnState>>
    /\ UNCHANGED <<adapterVars, tokenVars, proactiveVars, callVars, chainVars, sendVars>>

\* ---------------------------------------------------------- sendActivities
\* Activities a bot sends.
Gateway == "https://gateway"
Emulator == "https://emulator"

InvokeValues ==
    { InvokeResponse(201, Obj("{ok:true}")),
      InvokeResponse(409, Str("conflict")),
      InvokeResponse(200, False),
      Undefined }

Outbounds ==
    { Outbound("delay", Num("500"), "", "", "", ""),
      Outbound("delay", Undefined, "", "", "", "") }
    \cup { Outbound("invokeResponse", v, "", "", "", "") : v \in InvokeValues }
    \cup { Outbound("trace", Undefined, "emulator", Emulator, "conv", ""),
           Outbound("trace", Undefined, "msteams", Gateway, "conv", ""),
           Outbound("trace", Undefined, "msteams", "", "conv", "") }
    \cup { Outbound("message", Undefined, "msteams", Gateway, "conv", r) :
             r \in {"", "activity-1"} }
    \cup { Outbound("message", Undefined, "msteams", "", "conv", ""),
           Outbound("message", Undefined, "msteams", Gateway, "", ""),
           WithoutConversation(Outbound("message", Undefined, "msteams", Gateway, "", "")) }

RECURSIVE SeqsUpTo(_, _)
SeqsUpTo(S, n) ==
    IF n = 0 THEN {<<>>}
    ELSE LET shorter == SeqsUpTo(S, n - 1)
         IN shorter \cup { Append(q, x) : q \in shorter, x \in S }

Batches == SeqsUpTo(Outbounds, MaxBatch)

\* The number a numeral of the model stands for.
NumberOf(x) ==
    CASE x.v = "0" -> 0
      [] x.v = "500" -> 500
      [] x.v = "7" -> 7
      [] OTHER -> 1

\* (mutant) every delay is the default one
DelayMsAlwaysDefault(activity) == 1000

\* delay(typeof activity.value === 'number' ? activity.value : 1000)
DelayMs(activity) ==
    IF TypeOf(activity.value) = "number" THEN NumberOf(activity.value) ELSE 1000

\* {} as ResourceResponse, and the response of the gateway to its n-th call.
EmptyResponse == [id |-> 0]
ResourceResponse(n) == [id |-> n]

\* Counting none, one, several.
Count(n) == IF n = 0 THEN 1 ELSE 2

\* The logic calls sendActivities(context, activities) through its context.
SendBatch(t, activities) ==
    /\ pc[t] = "logic"
    /\ snd[t].result = "none"
    /\ ~revoked[t]
    /\ sendCalls' = [sendCalls EXCEPT ![t] = Count(@)]
    /\ snd' = [snd EXCEPT ![t] =
                 [NoSend EXCEPT !.batch = activities, !.i = 1, !.result = "running"]]
    /\ pc' = [pc EXCEPT ![t] = "send"]
    /\ UNCHANGED emitted
    /\ UNCHANGED <<adapterVars, tokenVars, proactiveVars, callRest, contextVars, chainVars>>

\* The logic sends any batch.
LogicSend(t) ==
    /\ pc[t] = "logic"
    /\ snd[t].result = "none"
    /\ ~revoked[t]
    /\ \E activities \in Batches : SendBatch(t, activities)

\* The logic sends the batch it has just sent once more.
LogicSendAgain(t) ==
    /\ pc[t] = "logic"
    /\ snd[t].result = "returned"
    /\ ~revoked[t]
    /\ sendCalls' = [sendCalls EXCEPT ![t] = Count(@)]
    /\ snd' = [snd EXCEPT ![t] =
                  [NoSend EXCEPT !.batch = snd[t].batch, !.i = 1,
                                 !.result = "running",
                                 !.resendOf = Len(snd[t].calls)]]
    /\ pc' = [pc EXCEPT ![t] = "send"]
    /\ UNCHANGED emitted
    /\ UNCHANGED <<adapterVars, tokenVars, proactiveVars, callRest, contextVars, chainVars>>

\* (mutant) the addressing of an outgoing activity is not looked at
UnaddressedIgnored(activity) == Undefined

\* The two checks of the default case: the error thrown for an activity
\* without serviceUrl, without conversation or without conversation.id.
Unaddressed(activity) ==
    IF activity.serviceUrl = ""
    THEN Err("BotFrameworkAdapter.sendActivity(): missing serviceUrl.")
    ELSE IF ~activity.conversation \/ activity.conversationId = ""
    THEN Err("BotFrameworkAdapter.sendActivity(): missing conversation id.")
    ELSE Undefined

\* (mutant) traces are sent on every channel
DroppedNever(activity) == FALSE

\* activity.type === 'trace' && activity.channelId !== 'emulator'
Dropped(activity) ==
    activity.type = "trace" /\ activity.channelId # "emulator"

\* What the loop body does with one activity, up to its first await:
\* "delay", "cache", "eat", "replyToActivity", "sendToConversation", or the
\* error it throws.
Dispatch(activity) ==
    CASE activity.type = "delay" -> [do |-> "delay", err |-> Undefined]
      [] activity.type = "invokeResponse" -> [do |-> "cache", err |-> Undefined]
      [] OTHER ->
           IF Unaddressed(activity) # Undefined
           THEN [do |-> "throw", err |-> Unaddressed(activity)]
           ELSE IF Dropped(activity)
           THEN [do |-> "eat", err |-> Undefined]
           ELSE IF activity.replyToId # ""
           THEN [do |-> "replyToActivity", err |-> Undefined]
           ELSE [do |-> "sendToConversation", err |-> Undefined]

\* (mutant) the first invokeResponse of a turn is kept, later ones are ignored
CachedFirst(activity) ==
    IF \E t \in DOMAIN turnState : pc[t] = "send" /\ turnState[t] # Undefined
    THEN turnState[CHOOSE t \in DOMAIN turnState :
                      pc[t] = "send" /\ turnState[t] # Undefined]
    ELSE activity

\* (mutant) only the InvokeResponse is kept, not the activity carrying it
CachedValue(activity) == activity.value

\* context.turnState.set(INVOKE_RESPONSE_KEY, activity): what is stored
Cached(activity) == activity

\* (mutant) one client, bound to one endpoint, serves every activity
createConnectorClientShared(serviceUrl) == [baseUri |-> Gateway]

\* createConnectorClient(serviceUrl): a client bound to that endpoint
createConnectorClient(serviceUrl) == [baseUri |-> serviceUrl]

\* (mutant) the call or the timer is started and the loop goes on
NotAwaited(do) == "send"

\* Where the loop stands after starting a delay or a gateway call: it awaits
\* the timer or the gateway's answer before anything else.
Awaited(do) == IF do = "delay" THEN "delay" ELSE "gateway"

\* responses.push(r), and on to the next activity
Push(s, r) == [s EXCEPT !.responses = Append(@, r), !.i = @ + 1]

\* (mutant) a dropped trace gets no response
EatSkips(s) == [s EXCEPT !.i = @ + 1]

\* "Just eat activity": a dropped trace still gets its empty response.
Eat(s) == Push(s, EmptyResponse)

\* One pass of the for loop, up to its await.
SendActivity(t) ==
    /\ pc[t] = "send"
    /\ snd[t].i <= Len(snd[t].batch)
    /\ LET activity == snd[t].batch[snd[t].i]
           d == Dispatch(activity)
       IN CASE d.do = "delay" ->
                 /\ snd' = [snd EXCEPT ![t].timer = DelayMs(activity)]
                 /\ pc' = [pc EXCEPT ![t] = Awaited(d.do)]
                 /\ UNCHANGED <<turnState, emitted>>
            [] d.do = "cache" ->
                 /\ turnState' = [turnState EXCEPT ![ContextOf(t)] = Cached(activity)]
                 /\ emitted' = [emitted EXCEPT ![t] = Count(@)]
                 /\ snd' = [snd EXCEPT ![t] = Push(@, EmptyResponse)]
                 /\ UNCHANGED pc
            [] d.do = "eat" ->
                 /\ snd' = [snd EXCEPT ![t] = Eat(@)]
                 /\ UNCHANGED <<pc, turnState, emitted>>
            [] d.do = "throw" ->
                 /\ snd' = [snd EXCEPT ![t].result = "failed", ![t].err = d.err]
                 /\ pc' = [pc EXCEPT ![t] = "logic"]
                 /\ UNCHANGED <<turnState, emitted>>
            [] OTHER ->
                 /\ snd' = [snd EXCEPT ![t].calls = Append(@,
                              [op |-> d.do,
                               baseUri |-> createConnectorClient(activity.serviceUrl).baseUri,
                               conversationId |-> activity.conversationId,
                               activityId |-> activity.replyToId,
                               activity |-> snd[t].i,
                               at |-> snd[t].elapsed,
                               n |-> Len(snd[t].calls) + 1])]
                 /\ pc' = [pc EXCEPT ![t] = Awaited(d.do)]
                 /\ UNCHANGED <<turnState, emitted>>
    /\ UNCHANGED <<built, revoked, lateUse, sendCalls>>
    /\ UNCHANGED <<adapterVars, tokenVars, proactiveVars, callRest, chainVars>>

\* The delay elapses: an empty response is pushed.
DelayElapsed(t) ==
    /\ pc[t] = "delay"
    /\ snd' = [snd EXCEPT ![t] =
                  Push([@ EXCEPT !.timer = 0, !.elapsed = @ + snd[t].timer],
                       EmptyResponse)]
    /\ pc' = [pc EXCEPT ![t] = "send"]
    /\ UNCHANGED <<sendCalls, emitted>>
    /\ UNCHANGED <<adapterVars, tokenVars, proactiveVars, callRest, contextVars, chainVars>>

\* (mutant) a failed gateway call takes back the calls made before it
GatewayFailureRolledBack(s) ==
    [snd |-> [s EXCEPT !.result = "failed", !.err = Err("gateway call failed"),
                       !.calls = <<>>],
     pc |-> "logic"]

\* (mutant) a failed gateway call is made again
GatewayFailureRetried(s) == [snd |-> s, pc |-> "send"]

\* The awaited gateway call rejects: nothing catches it in sendActivities, so
\* the call of sendActivities rejects with it and control is back in the logic.
GatewayFailure(s) ==
    [snd |-> [s EXCEPT !.result = "failed", !.err = Err("gateway call failed")],
     pc |-> "logic"]

\* The gateway answers the call in flight: its response is pushed, or its
\* failure is thrown out of sendActivities.
GatewayReply(t, ok) ==
    /\ pc[t] = "gateway"
    /\ IF ok
       THEN /\ snd' = [snd EXCEPT ![t] =
                         Push(@, ResourceResponse(@.calls[Len(@.calls)].n))]
            /\ pc' = [pc EXCEPT ![t] = "send"]
       ELSE /\ snd' = [snd EXCEPT ![t] = GatewayFailure(@).snd]
            /\ pc' = [pc EXCEPT ![t] = GatewayFailure(snd[t]).pc]
    /\ UNCHANGED <<sendCalls, emitted>>
    /\ UNCHANGED <<adapterVars, tokenVars, proactiveVars, callRest, contextVars, chainVars>>

\* The loop is over: return responses.
SendReturn(t) ==
    /\ pc[t] = "send"
    /\ snd[t].i > Len(snd[t].batch)
    /\ snd' = [snd EXCEPT ![t].result = "returned"]
    /\ pc' = [pc EXCEPT ![t] = "logic"]
    /\ UNCHANGED <<sendCalls, emitted>>
    /\ UNCHANGED <<adapterVars, tokenVars, proactiveVars, callRest, contextVars, chainVars>>

\* The logic's await of sendActivities settles: it goes on with the responses,
\* or with the error if it catches it; an error it does not catch rejects the
\* chain.
LogicResume(t, catches) ==
    /\ pc[t] = "logic"
    /\ snd[t].result \in {"returned", "failed"}
    /\ snd' = [snd EXCEPT ![t] = NoSend]
    /\ IF snd[t].result = "failed" /\ ~catches
       THEN /\ thrown' = [thrown EXCEPT ![t] = snd[t].err]
            /\ pc' = [pc EXCEPT ![t] = "unwound"]
       ELSE UNCHANGED <<pc, thrown>>
    /\ UNCHANGED <<mw, edges, sendCalls, emitted>>
    /\ UNCHANGED <<adapterVars, tokenVars, proactiveVars, callRest, contextVars>>

\* ------------------------------ continueConversation, createConversation
\* A conversation reference. `conversation` tells whether it has a
\* conversation object; conversationId, isGroup, tenantId, conversationType
\* and conversationName (the object's `name`) are that object's fields ("" for
\* an absent or null id or tenant id).
Reference(serviceUrl, conversation, tenantId) ==
    [channelId |-> "msteams", serviceUrl |-> serviceUrl,
     bot |-> "bot", user |-> "user",
     conversation |-> conversation,
     conversationId |-> IF conversation THEN "conv" ELSE "",
     isGroup |-> conversation,
     tenantId |-> tenantId,
     conversationType |-> IF conversation THEN Str("channel") ELSE Undefined,
     conversationName |-> IF conversation THEN Str("General") ELSE Undefined]

References ==
    { Reference("", TRUE, "tenant-1"),
      Reference(Gateway, FALSE, ""),
      Reference(Gateway, TRUE, ""),
      Reference(Gateway, TRUE, "tenant-1") }

\* TurnContext.applyConversationReference({type: 'event', name}, reference,
\* true): an incoming event activity addressed by the reference.
applyConversationReference(name, ref) ==
    [k |-> "object", v |-> "activity",
     type |-> Str("event"), name |-> name, timestamp |-> Undefined,
     channelId |-> ref.channelId, serviceUrl |-> ref.serviceUrl,
     fromId |-> ref.user, recipientId |-> ref.bot,
     conversation |-> ref.conversation,
     conversationId |-> ref.conversationId,
     isGroup |-> ref.isGroup,
     tenantId |-> ref.tenantId,
     conversationType |-> ref.conversationType,
     conversationName |-> ref.conversationName,
     channelDataTenant |-> ""]

\* (mutant) a failure of the turn is not passed on
Swallowed(err) == Undefined

\* await this.runMiddleware(context, logic): what the chain rejected with is
\* what the proactive method rejects with.
Propagated(err) == err

\* continueConversation(reference, logic): the event activity is built, the
\* context created and runMiddleware started.
ContinueConversation(t) ==
    /\ pc[t] = "idle"
    /\ \E ref \in References :
         /\ reference' = [reference EXCEPT ![t] = ref]
         /\ request' = [request EXCEPT ![t] =
                          applyConversationReference("continueConversation", ref)]
    /\ proactive' = [proactive EXCEPT ![t] = "continueConversation"]
    /\ built' = [built EXCEPT ![t] = TRUE]
    /\ mw' = [mw EXCEPT ![t] = 1]
    /\ pc' = [pc EXCEPT ![t] = "leading"]
    /\ UNCHANGED <<req, parsed, verdict, caught, status, body, res, raised, authCalls>>
    /\ UNCHANGED <<revoked, turnState, lateUse, edges, thrown, created>>
    /\ UNCHANGED <<adapterVars, tokenVars, sendVars>>

\* (mutant) the reference's serviceUrl is not checked
MissingServiceUrlAllowed(ref) == FALSE

\* if (!reference.serviceUrl)
MissingServiceUrl(ref) == ref.serviceUrl = ""

\* (mutant) the tenant id goes into channelData only
ConversationParametersLegacyOnly(ref) ==
    [bot |-> ref.bot, members |-> <<ref.user>>, isGroup |-> FALSE,
     activity |-> Null,
     channelData |-> IF ref.conversation /\ ref.tenantId # ""
                     THEN [tenant |-> [id |-> Str(ref.tenantId)]]
                     ELSE Null,
     tenantId |-> Undefined]

\* The ConversationParameters of the create-conversation request.
ConversationParameters(ref) ==
    [bot |-> ref.bot, members |-> <<ref.user>>, isGroup |-> FALSE,
     activity |-> Null,
     channelData |-> IF ref.conversation /\ ref.tenantId # ""
                     THEN [tenant |-> [id |-> Str(ref.tenantId)]]
                     ELSE Null,
     tenantId |-> IF ref.conversation /\ ref.tenantId # ""
                  THEN Str(ref.tenantId)
                  ELSE Undefined]

\* createConversation(reference, logic) up to its await: the serviceUrl
\* check, the parameters, the client, the create-conversation call.
CreateConversation(t) ==
    /\ pc[t] = "idle"
    /\ proactive' = [proactive EXCEPT ![t] = "createConversation"]
    /\ \E ref \in References :
         /\ reference' = [reference EXCEPT ![t] = ref]
         /\ IF MissingServiceUrl(ref)
            THEN /\ raised' = [raised EXCEPT ![t] =
                     Err("BotFrameworkAdapter.createConversation(): missing serviceUrl.")]
                 /\ pc' = [pc EXCEPT ![t] = "rejected"]
                 /\ UNCHANGED created
            ELSE /\ created' = [created EXCEPT ![t] =
                     [baseUri |-> createConnectorClient(ref.serviceUrl).baseUri,
                      parameters |-> ConversationParameters(ref),
                      answered |-> FALSE, failed |-> FALSE,
                      response |-> Undefined]]
                 /\ pc' = [pc EXCEPT ![t] = "creating"]
                 /\ UNCHANGED raised
    /\ UNCHANGED <<req, parsed, verdict, caught, request, status, body, res, authCalls>>
    /\ UNCHANGED <<adapterVars, tokenVars, contextVars, chainVars, sendVars>>

\* What the gateway answers: the id of the new conversation, with or without
\* a serviceUrl of its own.
ConversationResourceResponses ==
    { [id |-> "conv-new", serviceUrl |-> ""],
      [id |-> "conv-new", serviceUrl |-> "https://assigned"] }

\* (mutant) the serviceUrl the gateway assigned is not taken over
CreatedRequestKeepsServiceUrl(ref, response) ==
    [applyConversationReference("createConversation", ref) EXCEPT
        !.conversation = TRUE,
        !.conversationId = response.id,
        !.isGroup = FALSE,
        !.conversationType = Null,
        !.tenantId = "",
        !.conversationName = Null]

\* (mutant) the new conversation keeps the tenant id of the reference
CreatedRequestKeepsTenant(ref, response) ==
    [applyConversationReference("createConversation", ref) EXCEPT
        !.conversation = TRUE,
        !.conversationId = response.id,
        !.isGroup = FALSE,
        !.conversationType = Null,
        !.conversationName = Null,
        !.serviceUrl = IF response.serviceUrl # "" THEN response.serviceUrl ELSE @]

\* The request createConversation builds from the gateway's response: the
\* event activity, a fresh conversation with the new id, the serviceUrl of the
\* response when it has one.
CreatedRequest(ref, response) ==
    [applyConversationReference("createConversation", ref) EXCEPT
        !.conversation = TRUE,
        !.conversationId = response.id,
        !.isGroup = FALSE,
        !.conversationType = Null,
        !.tenantId = "",
        !.conversationName = Null,
        !.serviceUrl = IF response.serviceUrl # "" THEN response.serviceUrl ELSE @]

\* The gateway answers the create-conversation call: the request is built,
\* the context created and runMiddleware started.
CreateReply(t, response) ==
    /\ pc[t] = "creating"
    /\ created' = [created EXCEPT ![t].answered = TRUE, ![t].response = response]
    /\ request' = [request EXCEPT ![t] = CreatedRequest(reference[t], response)]
    /\ built' = [built EXCEPT ![t] = TRUE]
    /\ mw' = [mw EXCEPT ![t] = 1]
    /\ pc' = [pc EXCEPT ![t] = "leading"]
    /\ UNCHANGED <<req, parsed, verdict, caught, status, body, res, raised, authCalls>>
    /\ UNCHANGED <<revoked, turnState, lateUse, edges, thrown, proactive, reference>>
    /\ UNCHANGED <<adapterVars, tokenVars, sendVars>>

\* The create-conversation call fails: createConversation rejects with it.
CreateFails(t) ==
    /\ pc[t] = "creating"
    /\ created' = [created EXCEPT ![t].answered = TRUE, ![t].failed = TRUE]
    /\ raised' = [raised EXCEPT ![t] = Err("gateway call failed")]
    /\ pc' = [pc EXCEPT ![t] = "rejected"]
    /\ UNCHANGED <<req, parsed, verdict, caught, request, status, body, res, authCalls>>
    /\ UNCHANGED <<proactive, reference>>
    /\ UNCHANGED <<adapterVars, tokenVars, contextVars, chainVars, sendVars>>

\* await this.runMiddleware(...) settles in a proactive method: the method
\* resolves, or rejects with the error of the chain; no response is written.
ProactiveSettled(t) ==
    /\ pc[t] = "resumed"
    /\ proactive[t] # "none"
    /\ raised' = [raised EXCEPT ![t] = Propagated(thrown[t])]
    /\ pc' = [pc EXCEPT ![t] =
                IF Propagated(thrown[t]) = Undefined THEN "resolved" ELSE "rejected"]
    /\ UNCHANGED <<req, parsed, verdict, caught, request, status, body, res, authCalls>>
    /\ UNCHANGED <<adapterVars, tokenVars, proactiveVars, contextVars, chainVars, sendVars>>

\* The processActivity call is over; the turn's slot serves the next request.
Finish(t) ==
    /\ pc[t] \in {"resolved", "rejected"}
    /\ pc' = [pc EXCEPT ![t] = "idle"]
    /\ req' = [req EXCEPT ![t] = [body |-> Undefined, stream |-> Consumed]]
    /\ parsed' = [parsed EXCEPT ![t] = [ok |-> FALSE, activity |-> Undefined, err |-> Undefined]]
    /\ verdict' = [verdict EXCEPT ![t] = "none"]
    /\ caught' = [caught EXCEPT ![t] = Undefined]
    /\ request' = [request EXCEPT ![t] = Undefined]
    /\ status' = [status EXCEPT ![t] = 0]
    /\ body' = [body EXCEPT ![t] = Undefined]
    /\ res' = [res EXCEPT ![t] = <<>>]
    /\ raised' = [raised EXCEPT ![t] = Undefined]
    /\ authCalls' = [authCalls EXCEPT ![t] = 0]
    /\ built' = [built EXCEPT ![t] = FALSE]
    /\ revoked' = [revoked EXCEPT ![t] = FALSE]
    /\ turnState' = [turnState EXCEPT ![t] = Undefined]
    /\ lateUse' = [lateUse EXCEPT ![t] = "none"]
    /\ mw' = [mw EXCEPT ![t] = 0]
    /\ edges' = [edges EXCEPT ![t] = <<>>]
    /\ thrown' = [thrown EXCEPT ![t] = Undefined]
    /\ snd' = [snd EXCEPT ![t] = NoSend]
    /\ sendCalls' = [sendCalls EXCEPT ![t] = 0]
    /\ emitted' = [emitted EXCEPT ![t] = 0]
    /\ proactive' = [proactive EXCEPT ![t] = "none"]
    /\ reference' = [reference EXCEPT ![t] = Undefined]
    /\ created' = [created EXCEPT ![t] = Undefined]
    /\ UNCHANGED <<adapterVars, tokenVars, tokenVars>>

\* ------------------------------------------------------------ token broker
OAUTH_ENDPOINT == "https://api.botframework.com"
US_GOV_OAUTH_ENDPOINT == "https://api.botframework.azure.us"

\* JwtTokenValidation.isGovernment(channelService)
isGovernment(channelService) == channelService = GovernmentChannelService

\* this.credentials = new MicrosoftAppCredentials(appId, appPassword || '')
credentials == [appId |-> settings.appId, appPassword |-> settings.appPassword]

\* context.activity of the turns whose logic calls the token broker: on the
\* emulator channel or on another, with or without a from.id.
TokenActivities ==
    { [Activity(Str("message"), DateOf(Stamp), c, "") EXCEPT !.fromId = f] :
        c \in {"emulator", "msteams"}, f \in {"user", ""} }

\* !context.activity.from || !context.activity.from.id
MissingFrom(activity) == activity.fromId = ""

\* oauthApiUrl(contextOrServiceUrl), read with the flag as it stands when the
\* method is called; a context is given by its activity.
oauthApiUrl(emulating, contextOrServiceUrl) ==
    IF emulating
    THEN (IF TypeOf(contextOrServiceUrl) = "object"
          THEN contextOrServiceUrl.serviceUrl
          ELSE contextOrServiceUrl.v)
    ELSE (IF settings.oAuthEndpoint # "" THEN settings.oAuthEndpoint
          ELSE IF isGovernment(settings.channelService) THEN US_GOV_OAUTH_ENDPOINT
          ELSE OAUTH_ENDPOINT)

\* (mutant) the emulator channel switches the adapter to emulation whatever
\* its credentials are
checkEmulatingOAuthCardsAnyCredentials(activity) ==
    IF ~isEmulatingOAuthCards /\ activity.channelId = "emulator"
    THEN TRUE
    ELSE isEmulatingOAuthCards

\* (mutant) the emulator channel never switches the adapter to emulation
checkEmulatingOAuthCardsNever(activity) == isEmulatingOAuthCards

\* checkEmulatingOAuthCards(context): the value it leaves in
\* this.isEmulatingOAuthCards
checkEmulatingOAuthCards(activity) ==
    IF /\ ~isEmulatingOAuthCards
       /\ activity.channelId = "emulator"
       /\ (credentials.appId = "" \/ credentials.appPassword = "")
    THEN TRUE
    ELSE isEmulatingOAuthCards

\* createTokenApiClient(url) and the one request the operation makes with it
createTokenApiClient(serviceUrl, userId, channelId) ==
    [baseUri |-> serviceUrl, userId |-> userId, channelId |-> channelId]

\* The operation as called, before it has done anything.
Begun(op, activity, userId, connectionName) ==
    [NoToken EXCEPT !.op = op, !.activity = activity, !.userId = userId,
                    !.connectionName = connectionName]

\* The operation's throw before any request.
Thrown(begun, err) == [begun EXCEPT !.phase = "failed", !.err = err]

\* checkEmulatingOAuthCards, oauthApiUrl, createTokenApiClient and the
\* request, as every user-token operation does them in this order.
Request(begun, userId) ==
    LET emulating == checkEmulatingOAuthCards(begun.activity)
    IN /\ isEmulatingOAuthCards' = emulating
       /\ tok' = [begun EXCEPT
                    !.phase = "calling",
                    !.call = createTokenApiClient(
                                oauthApiUrl(emulating, begun.activity), userId,
                                begun.activity.channelId)]

ConnectionNames == {Str("conn"), Undefined}
UserIds == {Str("user-2"), Undefined}

TokenRest ==
    <<middleware, settings, callVars, contextVars, chainVars, sendVars,
      proactiveVars>>

\* getUserToken(context, connectionName, magicCode?)
GetUserToken(activity, connectionName) ==
    /\ tok.phase # "calling"
    /\ LET begun == Begun("getUserToken", activity, Undefined, connectionName)
       IN IF MissingFrom(activity)
          THEN /\ tok' = Thrown(begun,
                    Err("BotFrameworkAdapter.getUserToken(): missing from or from.id"))
               /\ UNCHANGED isEmulatingOAuthCards
          ELSE IF ~Truthy(connectionName)
          THEN /\ tok' = Thrown(begun,
                    Err("getUserToken() requires a connectionName but none was provided."))
               /\ UNCHANGED isEmulatingOAuthCards
          ELSE Request(begun, Str(activity.fromId))
    /\ UNCHANGED <<emulated, TokenRest>>

\* signOutUser(context, connectionName?, userId?)
SignOutUser(activity, connectionName, userId) ==
    /\ tok.phase # "calling"
    /\ LET begun == Begun("signOutUser", activity, userId, connectionName)
       IN IF MissingFrom(activity)
          THEN /\ tok' = Thrown(begun,
                    Err("BotFrameworkAdapter.signOutUser(): missing from or from.id"))
               /\ UNCHANGED isEmulatingOAuthCards
          ELSE Request(begun, IF ~Truthy(userId) THEN Str(activity.fromId) ELSE userId)
    /\ UNCHANGED <<emulated, TokenRest>>

\* getSignInLink(context, connectionName): it reads no user id
GetSignInLink(activity, connectionName) ==
    /\ tok.phase # "calling"
    /\ Request(Begun("getSignInLink", activity, Undefined, connectionName), Undefined)
    /\ UNCHANGED <<emulated, TokenRest>>

\* getTokenStatus(context, userId?, includeFilter?)
GetTokenStatus(activity, userId) ==
    /\ tok.phase # "calling"
    /\ LET begun == Begun("getTokenStatus", activity, userId, Undefined)
       IN IF ~Truthy(userId) /\ MissingFrom(activity)
          THEN /\ tok' = Thrown(begun,
                    Err("BotFrameworkAdapter.getTokenStatus(): missing from or from.id"))
               /\ UNCHANGED isEmulatingOAuthCards
          ELSE Request(begun, IF Truthy(userId) THEN userId ELSE Str(activity.fromId))
    /\ UNCHANGED <<emulated, TokenRest>>

\* getAadTokens(context, connectionName, resourceUrls)
GetAadTokens(activity, connectionName) ==
    /\ tok.phase # "calling"
    /\ LET begun == Begun("getAadTokens", activity, Undefined, connectionName)
       IN IF MissingFrom(activity)
          THEN /\ tok' = Thrown(begun,
                    Err("BotFrameworkAdapter.getAadTokens(): missing from or from.id"))
               /\ UNCHANGED isEmulatingOAuthCards
          ELSE Request(begun, Str(activity.fromId))
    /\ UNCHANGED <<emulated, TokenRest>>

\* What emulateOAuthCards is given: a context or the emulator's URL.
EmulateTargets == TokenActivities \cup {Str(Emulator)}

\* emulateOAuthCards(contextOrServiceUrl, emulate): the flag is assigned, then
\* the URL is computed, then the toggle request is sent to that URL.
EmulateOAuthCards(contextOrServiceUrl, emulate) ==
    /\ tok.phase # "calling"
    /\ isEmulatingOAuthCards' = emulate
    /\ emulated' = (emulated \/ emulate)
    /\ tok' = [NoToken EXCEPT
                 !.op = "emulateOAuthCards", !.phase = "calling",
                 !.target = contextOrServiceUrl, !.emulate = emulate,
                 !.call = createTokenApiClient(
                             oauthApiUrl(emulate, contextOrServiceUrl), Undefined, "")]
    /\ UNCHANGED TokenRest

\* What client.userToken.getToken resolves with: nothing, or a response with
\* or without a token, under a 200 or a 404.
TokenResponses ==
    {Undefined} \cup
    { [k |-> "object", v |-> "tokenResponse", token |-> tk, status |-> st] :
        tk \in {"", "tok"}, st \in {200, 404} }

\* What the token service answers to an operation.
RepliesTo(op) ==
    IF op = "getUserToken" THEN TokenResponses ELSE {Str("reply")}

\* (mutant) a 404 response that carries a token is returned
TokenResultKeeps404(result) ==
    IF ~Truthy(result) \/ result.token = "" THEN Undefined ELSE result

\* getUserToken's return value for what getToken resolved with
TokenResult(result) ==
    IF ~Truthy(result) \/ result.token = "" \/ result.status = 404
    THEN Undefined
    ELSE result

\* The awaited request settles: the token service answers, or the request
\* fails and the operation rejects with that failure.
TokenReply(ok, reply) ==
    /\ tok.phase = "calling"
    /\ reply \in RepliesTo(tok.op)
    /\ tok' = IF ~ok
              THEN [tok EXCEPT !.phase = "failed",
                               !.err = Err("token service failure")]
              ELSE [tok EXCEPT
                      !.phase = "returned",
                      !.reply = reply,
                      !.result =
                          CASE tok.op = "getUserToken" -> TokenResult(reply)
                            [] tok.op \in {"signOutUser", "emulateOAuthCards"} ->
                                  Undefined
                            [] OTHER -> reply]
    /\ UNCHANGED <<isEmulatingOAuthCards, emulated, TokenRest>>

\* ------------------------------------------------------------ specification
Next ==
    \/ Use
    \/ \E t \in Turns : ProcessActivity(t)
    \/ \E t \in Turns : StreamEnd(t)
    \/ \E t \in Turns : AfterParse(t)
    \/ \E t \in Turns, v \in Verdicts, ok \in BOOLEAN : Authenticate(t, v, ok)
    \/ \E t \in Turns, c \in {"next", "return", "throw"} : Leading(t, c)
    \/ \E t \in Turns : CallLogic(t)
    \/ \E t \in Turns : LogicSend(t)
    \/ \E t \in Turns : LogicSendAgain(t)
    \/ \E t \in Turns : SendActivity(t)
    \/ \E t \in Turns : DelayElapsed(t)
    \/ \E t \in Turns, ok \in BOOLEAN : GatewayReply(t, ok)
    \/ \E t \in Turns : SendReturn(t)
    \/ \E t \in Turns, c \in BOOLEAN : LogicResume(t, c)
    \/ \E t \in Turns : LogicReturn(t)
    \/ \E t \in Turns : LogicThrow(t)
    \/ \E t \in Turns, c \in {"next", "throw"} : Trailing(t, c)
    \/ \E t \in Turns : RunMiddlewareSettled(t)
    \/ \E t \in Turns : AfterMiddleware(t)
    \/ \E t \in Turns : Respond(t)
    \/ \E t \in Turns : CheckError(t)
    \/ \E t \in Turns : LateContextUse(t)
    \/ \E t \in Turns : Finish(t)

Spec == Init /\ [][Next]_vars

\* The adapter with everything a call waits for answering in the end: a step
\* that is ready is taken (the event loop runs a continuation that is ready;
\* the authenticator, the middleware, the gateway and the timer answer), and
\* a logic that keeps sending does go on from a sendActivities call that has
\* settled, and does return or throw at some point.
SpecLive ==
    /\ Init
    /\ [][Next]_vars
    /\ WF_vars(Next)
    /\ \A t \in Turns : SF_vars(\E c \in BOOLEAN : LogicResume(t, c))
    /\ \A t \in Turns : SF_vars(LogicReturn(t) \/ LogicThrow(t))

\* The adapter used proactively: turns started by continueConversation and
\* createConversation, followed through the middleware chain to the return or
\* the throw of the logic. What a logic sends is followed in Spec.
NextProactive ==
    \/ Use
    \/ \E t \in Turns : ContinueConversation(t)
    \/ \E t \in Turns : CreateConversation(t)
    \/ \E t \in Turns, r \in ConversationResourceResponses : CreateReply(t, r)
    \/ \E t \in Turns : CreateFails(t)
    \/ \E t \in Turns, c \in {"next", "return", "throw"} : Leading(t, c)
    \/ \E t \in Turns : CallLogic(t)
    \/ \E t \in Turns : LogicReturn(t)
    \/ \E t \in Turns : LogicThrow(t)
    \/ \E t \in Turns, c \in {"next", "throw"} : Trailing(t, c)
    \/ \E t \in Turns : RunMiddlewareSettled(t)
    \/ \E t \in Turns : ProactiveSettled(t)
    \/ \E t \in Turns : LateContextUse(t)
    \/ \E t \in Turns : Finish(t)

SpecProactive == Init /\ [][NextProactive]_vars

\* The token broker of an adapter constructed with any settings: the
\* operations a logic calls with its context, one after the other, across
\* turns on the emulator channel and on another channel.
NextTokens ==
    \/ \E a \in TokenActivities, c \in ConnectionNames : GetUserToken(a, c)
    \/ \E a \in TokenActivities, c \in ConnectionNames, u \in UserIds :
          SignOutUser(a, c, u)
    \/ \E a \in TokenActivities, c \in ConnectionNames : GetSignInLink(a, c)
    \/ \E a \in TokenActivities, u \in UserIds : GetTokenStatus(a, u)
    \/ \E a \in TokenActivities, c \in ConnectionNames : GetAadTokens(a, c)
    \/ \E x \in EmulateTargets, e \in BOOLEAN : EmulateOAuthCards(x, e)
    \/ \E ok \in BOOLEAN, r \in TokenResponses \cup {Str("reply")} : TokenReply(ok, r)

SpecTokens == InitTokens /\ [][NextTokens]_vars

\* Two processActivity calls on one adapter. The first request is served
\* alone until its logic's sendActivities waits in a delay; the second request
\* arrives during such a wait, and from then on the two calls interleave step
\* by step. Both requests are well formed and authenticated; each logic sends
\* one batch, of delays and at least one message for the gateway.
ConcurrentTurns == {1, 2}

ConcurrentRequest ==
    [body |-> Activity(Str("message"), Str(Stamp), "emulator", ""), stream |-> Consumed]

ConcurrentBatches ==
    { b \in SeqsUpTo({ Outbound("delay", Num("500"), "", "", "", ""),
                       Outbound("message", Undefined, "msteams", Gateway, "conv", "") },
                     MaxBatch) :
        \E i \in 1..Len(b) : b[i].type = "message" }

\* (mutant) a delay that keeps the thread: while a call waits in its delay no
\* other call runs
BlockedByDelay(t) == \E u \in DOMAIN pc \ {t} : pc[u] = "delay"

\* Whether a call is kept from running by another call. delay() is a promise
\* resolved by setTimeout and sendActivities awaits it: the waiting call has
\* left the thread, so no call is kept from running.
Blocked(t) == FALSE

\* One step of call t; the request of call 2 arrives while call 1 waits.
TurnStep(t) ==
    \/ ~Blocked(t) /\ (t = 1 \/ pc[1] = "delay") /\ Receive(t, ConcurrentRequest)
    \/ ~Blocked(t) /\ AfterParse(t)
    \/ ~Blocked(t) /\ Authenticate(t, "authenticated", TRUE)
    \/ ~Blocked(t) /\ Leading(t, "next")
    \/ ~Blocked(t) /\ CallLogic(t)
    \/ ~Blocked(t) /\ \E activities \in ConcurrentBatches : SendBatch(t, activities)
    \/ ~Blocked(t) /\ SendActivity(t)
    \/ ~Blocked(t) /\ DelayElapsed(t)
    \/ ~Blocked(t) /\ \E ok \in BOOLEAN : GatewayReply(t, ok)
    \/ ~Blocked(t) /\ SendReturn(t)
    \/ ~Blocked(t) /\ \E c \in BOOLEAN : LogicResume(t, c)
    \/ ~Blocked(t) /\ LogicReturn(t)
    \/ ~Blocked(t) /\ Trailing(t, "next")
    \/ ~Blocked(t) /\ RunMiddlewareSettled(t)
    \/ ~Blocked(t) /\ AfterMiddleware(t)
    \/ ~Blocked(t) /\ Respond(t)
    \/ ~Blocked(t) /\ CheckError(t)

NextConcurrent == \E t \in ConcurrentTurns : TurnStep(t)

SpecConcurrent ==
    Constructor(DefaultSettings, ConcurrentTurns) /\ [][NextConcurrent]_vars

\* Two processActivity calls on one adapter, interleaved step by step from
\* the start. Each request is a message or an invoke, well formed and
\* authenticated; each logic sends one batch of invokeResponse activities
\* through its own context, and the two logics answer differently: the logic
\* of call 1 emits 201 "created", that of call 2 emits 409 "conflict".
InvokeAnswer(t) ==
    IF t = 1 THEN InvokeResponse(201, Str("created"))
             ELSE InvokeResponse(409, Str("conflict"))

InvokeStep(t) ==
    \/ \E b \in GoodBodies : Receive(t, [body |-> b, stream |-> Consumed])
    \/ AfterParse(t)
    \/ Authenticate(t, "authenticated", TRUE)
    \/ Leading(t, "next")
    \/ CallLogic(t)
    \/ \E activities \in SeqsUpTo({ Outbound("invokeResponse", InvokeAnswer(t),
                                               "msteams", Gateway, "conv", "") },
                                    MaxBatch) : SendBatch(t, activities)
    \/ SendActivity(t)
    \/ SendReturn(t)
    \/ \E c \in BOOLEAN : LogicResume(t, c)
    \/ LogicReturn(t)
    \/ Trailing(t, "next")
    \/ RunMiddlewareSettled(t)
    \/ AfterMiddleware(t)
    \/ Respond(t)
    \/ CheckError(t)

SpecInvoke ==
    /\ Constructor(DefaultSettings, ConcurrentTurns)
    /\ [][\E t \in ConcurrentTurns : InvokeStep(t)]_vars

\* ------------------------------------------------------------------ claims
\* The call has its final status; its response is written.
Settled == {"respond", "check", "resolved", "rejected"}
Responded(t) == pc[t] \in {"check", "resolved", "rejected"}

\* The response calls: res.status(st), res.send(b), res.end().
StatusCall(st) == [op |-> "status", arg |-> st, val |-> Undefined]
SendCall(b) == [op |-> "send", arg |-> 0, val |-> b]
EndCall == [op |-> "end", arg |-> 0, val |-> Undefined]

\* The turn logic was invoked.
LogicRan(t) == \E i \in 1..Len(edges[t]) : edges[t][i][1] = "logic"

\* C1: a request that fails authentication (the claims are not authenticated,
\* or the authenticator throws) is answered 401, and in that call no
\* middleware and no logic runs, no context is built, and no sendActivities
\* call and no gateway call is made.
C1_AuthFailure ==
    \A t \in Turns :
        verdict[t] \in {"notAuthenticated", "fails"} =>
            /\ status[t] = 401
            /\ edges[t] = <<>>
            /\ ~built[t]
            /\ sendCalls[t] = 0
            /\ snd[t] = NoSend
            /\ res[t] # <<>> => res[t][1] = StatusCall(401)

C1_Witness ==
    \E t \in Turns :
        /\ verdict[t] = "notAuthenticated"
        /\ pc[t] = "rejected"
        /\ res[t][1] = StatusCall(401)

\* The body a request carries: what its stream holds, or what the transport
\* parsed.
Inbound(t) ==
    IF req[t].stream.k = "text"
    THEN IF req[t].stream.wellFormed THEN req[t].stream.doc ELSE Undefined
    ELSE req[t].body

\* Not an object, or no string type.
Malformed(b) == b.k # "object" \/ b.type.k # "string"

OneInvokeResponse(t) ==
    /\ built[t]
    /\ request[t].type = Str("invoke")
    /\ emitted[t] = 1
    /\ turnState[t] # Undefined
    /\ turnState[t].value # Undefined

\* The logic ran and returned normally (a trailing edge followed it).
LogicReturned(t) ==
    \E i \in 1..Len(edges[t]) : edges[t][i][1] = "logic" /\ i < Len(edges[t])

\* Values for which `if (body)` is false.
Falsy == {Undefined, Null, False, Num("0"), Str("")}

\* C3 as claimed: when the logic of an invoke turn has returned normally after
\* sending exactly one invokeResponse with status s and body b, the response
\* has status s and body b.
C3_AsClaimed ==
    \A t \in Turns :
        (Responded(t) /\ OneInvokeResponse(t) /\ LogicReturned(t)) =>
            LET v == turnState[t].value
            IN /\ res[t][1] = StatusCall(v.status)
               /\ v.body # Undefined =>
                    \E i \in 1..Len(res[t]) : res[t][i] = SendCall(v.body)

\* C3: when the middleware and the logic of an invoke turn have completed
\* normally after sending exactly one invokeResponse with status s and body b,
\* the response has status s, and body b when b is truthy; for a falsy b
\* (absent, null, false, 0, '') no body is sent.
C3_InvokeResponse ==
    \A t \in Turns :
        (Responded(t) /\ OneInvokeResponse(t) /\ thrown[t] = Undefined) =>
            LET v == turnState[t].value
            IN res[t] = IF v.body \in Falsy
                        THEN <<StatusCall(v.status), EndCall>>
                        ELSE <<StatusCall(v.status), SendCall(v.body), EndCall>>

C3_Witness ==
    \E t \in Turns :
        /\ pc[t] = "resolved"
        /\ OneInvokeResponse(t)
        /\ res[t] = <<StatusCall(201), SendCall(Obj("{ok:true}")), EndCall>>

\* C4: an authenticated invoke turn whose middleware and logic complete
\* normally without any invokeResponse being sent is answered 501.
C4_InvokeNotImplemented ==
    \A t \in Turns :
        (/\ pc[t] \in Settled
         /\ built[t]
         /\ request[t].type = Str("invoke")
         /\ thrown[t] = Undefined
         /\ emitted[t] = 0) =>
            /\ status[t] = 501
            /\ res[t] # <<>> => res[t][1] = StatusCall(501)

C4_Witness ==
    \E t \in Turns :
        /\ Responded(t)
        /\ built[t]
        /\ request[t].type = Str("invoke")
        /\ LogicReturned(t)
        /\ thrown[t] = Undefined
        /\ emitted[t] = 0
        /\ res[t][1] = StatusCall(501)

\* C5: when context construction, a middleware or the logic throws after
\* authentication succeeded, the status is 500 and the body is the text of the
\* thrown error ("<name>: <message>"), also in an invoke turn in which an
\* invokeResponse was cached.
C5_FailureIs500 ==
    \A t \in Turns :
        (/\ verdict[t] = "authenticated"
         /\ pc[t] \in Settled
         /\ (~built[t] \/ thrown[t] # Undefined)) =>
            /\ status[t] = 500
            /\ IsError(caught[t])
            /\ built[t] => caught[t] = thrown[t]
            /\ body[t] = Str(caught[t].k \o ": " \o caught[t].v)
            /\ res[t] # <<>> =>
                 res[t] = <<StatusCall(500), SendCall(body[t]), EndCall>>

C5_Witness ==
    \E t \in Turns :
        /\ pc[t] = "rejected"
        /\ OneInvokeResponse(t)
        /\ turnState[t].value.status = 201
        /\ thrown[t] = Err("logic failed")
        /\ res[t] = <<StatusCall(500), SendCall(Str("Error: logic failed")), EndCall>>

\* The response is complete: a status first, the end signal last.
Complete(r) == Len(r) >= 2 /\ r[1].op = "status" /\ r[Len(r)] = EndCall

\* C6: a call whose final status is >= 400 fails to its invoker, and only
\* after its response was completely written; a call whose final status is
\* < 400 completes without raising.
C6_DualReporting ==
    \A t \in Turns :
        /\ raised[t] # Undefined =>
             Complete(res[t]) /\ res[t][1] = StatusCall(status[t])
        /\ pc[t] = "rejected" =>
             raised[t] # Undefined /\ status[t] >= 400
        /\ pc[t] = "resolved" =>
             raised[t] = Undefined /\ status[t] < 400 /\ Complete(res[t])
        /\ (pc[t] \in {"resolved", "rejected"} /\ status[t] >= 400) =>
             pc[t] = "rejected"

C6_Witness ==
    \E t \in Turns :
        /\ pc[t] = "rejected"
        /\ status[t] = 501
        /\ raised[t] # Undefined
        /\ Complete(res[t])

\* C7 as claimed: whenever processActivity raises an error to its invoker, the
\* message of that error is the text of the body that was sent in the
\* response, for every final status >= 400.
C7_SameError ==
    \A t \in Turns :
        raised[t] # Undefined =>
            /\ raised[t].k = "Error"
            /\ \E i \in 1..Len(res[t]) :
                 /\ res[t][i].op = "send"
                 /\ toString(res[t][i].val) = raised[t].v

\* C8: once runMiddleware has settled (the chain resolved or rejected) the
\* context handed to middleware and logic is revoked, and no operation on it
\* succeeds from then on: each one throws.
C8_Revoked ==
    \A t \in Turns :
        /\ (built[t] /\ pc[t] \in {"resumed"} \cup Settled) => revoked[t]
        /\ lateUse[t] # "succeeded"
        /\ revoked[t] => pc[t] \in {"resumed"} \cup Settled

C8_Witness ==
    \E t \in Turns :
        /\ thrown[t] # Undefined
        /\ revoked[t]
        /\ lateUse[t] = "TypeError"

\* C9: in a turn the leading edges run in registration order, the adapter's
\* own middleware first; the logic runs once, after every leading edge; the
\* trailing edges run in reverse order after the logic (or after the
\* middleware that did not call next) has returned.
C9_EdgeOrder ==
    /\ Len(middleware) >= 1
    /\ middleware[1] = "tenantRelocation"
    /\ \A t \in Turns :
         LET e == edges[t]
             n == Len(middleware)
         IN \A i \in 1..Len(e) :
              /\ e[i][1] = "lead" => e[i][2] = i
              /\ e[i][1] = "logic" =>
                   /\ i = n + 1
                   /\ \A j \in 1..Len(e) : e[j][1] = "logic" => j = i
              /\ e[i][1] = "trail" =>
                   /\ i > 1
                   /\ \/ e[i - 1][1] = "logic" /\ e[i][2] = n
                      \/ e[i - 1][1] # "logic" /\ e[i][2] = e[i - 1][2] - 1

C9_Witness ==
    \E t \in Turns :
        /\ middleware = <<"tenantRelocation", "user">>
        /\ edges[t] = << <<"lead", 1>>, <<"lead", 2>>, <<"logic", 0>>,
                         <<"trail", 2>>, <<"trail", 1>> >>

\* The activity is neither a control activity nor a dropped trace: it goes to
\* the gateway.
GoesToGateway(a) ==
    /\ a.type \notin {"delay", "invokeResponse"}
    /\ ~(a.type = "trace" /\ a.channelId # "emulator")

\* C10: when sendActivities returns, it returns one response per input
\* activity, in the order of the input: an empty one for a delay, an
\* invokeResponse and a dropped trace, and for a dispatched activity the
\* response the gateway gave to the call made for it.
C10_Aligned ==
    \A t \in Turns :
        snd[t].result = "returned" =>
            /\ Len(snd[t].responses) = Len(snd[t].batch)
            /\ \A i \in 1..Len(snd[t].batch) :
                 IF GoesToGateway(snd[t].batch[i])
                 THEN \E c \in 1..Len(snd[t].calls) :
                        /\ snd[t].calls[c].activity = i
                        /\ snd[t].responses[i] = ResourceResponse(snd[t].calls[c].n)
                 ELSE snd[t].responses[i] = EmptyResponse

C10_Witness ==
    \E t \in Turns :
        /\ snd[t].result = "returned"
        /\ Len(snd[t].batch) = 2
        /\ snd[t].batch[1].type = "trace"
        /\ snd[t].batch[1].channelId = "msteams"
        /\ snd[t].batch[2].type = "message"
        /\ snd[t].responses = <<EmptyResponse, ResourceResponse(1)>>

\* The gateway calls of the sendActivities call in progress that have been
\* issued and not yet answered: the response of their activity is not pushed
\* and the call has not failed.
InFlight(t) ==
    { c \in 1..Len(snd[t].calls) :
        /\ Len(snd[t].responses) < snd[t].calls[c].activity
        /\ ~(c = Len(snd[t].calls) /\ snd[t].result = "failed") }

\* C11: within one sendActivities call the gateway calls are issued in the
\* order of the input activities; a call is issued only when every earlier
\* activity has its response (its gateway call answered, its delay elapsed);
\* at most one gateway call of the batch is in flight, and none during a delay.
C11_OneAtATime ==
    \A t \in Turns :
        LET s == snd[t]
        IN /\ \A c, d \in 1..Len(s.calls) :
                c < d => s.calls[c].activity < s.calls[d].activity
           /\ \A c \in InFlight(t) :
                /\ c = Len(s.calls)
                /\ pc[t] = "gateway"
                /\ Len(s.responses) = s.calls[c].activity - 1
           /\ pc[t] = "gateway" => InFlight(t) = {Len(s.calls)}
           /\ pc[t] = "delay" =>
                /\ InFlight(t) = {}
                /\ Len(s.responses) = s.i - 1

C11_Witness ==
    \E t \in Turns :
        /\ pc[t] = "gateway"
        /\ Len(snd[t].batch) = 2
        /\ snd[t].batch[1].type = "message"
        /\ snd[t].batch[1].replyToId = "activity-1"
        /\ snd[t].batch[2].type = "message"
        /\ Len(snd[t].calls) = 2
        /\ snd[t].responses = <<ResourceResponse(1)>>

\* The pauses asked for by the delay activities before position i of a batch.
RECURSIVE PausesBefore(_, _)
PausesBefore(batch, i) ==
    IF i <= 1 THEN 0
    ELSE PausesBefore(batch, i - 1)
         + (IF batch[i - 1].type # "delay" THEN 0
            ELSE IF batch[i - 1].value = Num("500") THEN 500 ELSE 1000)

\* C12: a delay activity suspends the batch for its value in milliseconds when
\* the value is a number and for 1000 otherwise, makes no gateway call and gets
\* an empty response; a later activity of the batch is dispatched only when the
\* pauses before it have elapsed; a batch sent a second time makes its gateway
\* calls again.
C12_Delay ==
    \A t \in Turns :
        LET s == snd[t]
        IN /\ pc[t] = "delay" =>
                /\ s.batch[s.i].type = "delay"
                /\ s.timer = IF s.batch[s.i].value = Num("500") THEN 500 ELSE 1000
           /\ \A i \in 1..Len(s.responses) :
                s.batch[i].type = "delay" =>
                    /\ s.responses[i] = EmptyResponse
                    /\ \A c \in 1..Len(s.calls) : s.calls[c].activity # i
           /\ \A c \in 1..Len(s.calls) :
                s.calls[c].at >= PausesBefore(s.batch, s.calls[c].activity)
           /\ (s.resendOf >= 0 /\ s.result = "returned") =>
                Len(s.calls) = s.resendOf

C12_Witness ==
    \E t \in Turns :
        /\ snd[t].result = "returned"
        /\ snd[t].resendOf = 1
        /\ Len(snd[t].batch) = 2
        /\ snd[t].batch[1].type = "delay"
        /\ snd[t].batch[1].value = Num("500")
        /\ snd[t].batch[2].type = "message"
        /\ Len(snd[t].calls) = 1
        /\ snd[t].calls[1].at = 500
        /\ snd[t].responses = <<EmptyResponse, ResourceResponse(1)>>

\* The activity lacks serviceUrl, conversation or conversation.id.
LacksAddress(a) == a.serviceUrl = "" \/ ~a.conversation \/ a.conversationId = ""

\* The sendActivities call in progress has failed at position i of its batch.
FailedAt(t, i) == snd[t].result = "failed" /\ snd[t].i = i

\* Position i of the batch got a gateway call.
CalledFor(t, i) == \E c \in 1..Len(snd[t].calls) : snd[t].calls[c].activity = i

\* C13 as claimed: every trace activity off the emulator channel is dropped
\* without failure, with an empty response and no gateway call; a trace on the
\* emulator channel is delivered to the gateway.
C13_AsClaimed ==
    \A t \in Turns : \A i \in 1..Len(snd[t].batch) :
        LET a == snd[t].batch[i]
        IN a.type = "trace" =>
             IF a.channelId # "emulator"
             THEN /\ ~CalledFor(t, i)
                  /\ ~FailedAt(t, i)
                  /\ i <= Len(snd[t].responses) => snd[t].responses[i] = EmptyResponse
             ELSE i <= Len(snd[t].responses) => CalledFor(t, i)

\* C13: a trace activity off the emulator channel that carries serviceUrl and
\* conversation.id is dropped without failure, with an empty response and no
\* gateway call; one that lacks either fails the call, still without a gateway
\* call; a trace on the emulator channel is delivered to the gateway.
C13_TraceDropped ==
    \A t \in Turns : \A i \in 1..Len(snd[t].batch) :
        LET a == snd[t].batch[i]
        IN a.type = "trace" =>
             IF a.channelId # "emulator"
             THEN /\ ~CalledFor(t, i)
                  /\ i <= Len(snd[t].responses) => snd[t].responses[i] = EmptyResponse
                  /\ IF LacksAddress(a)
                     THEN Len(snd[t].responses) < i
                     ELSE ~FailedAt(t, i)
             ELSE i <= Len(snd[t].responses) => CalledFor(t, i)

C13_Witness ==
    \E t \in Turns :
        /\ snd[t].result = "returned"
        /\ Len(snd[t].batch) = 2
        /\ snd[t].batch[1].type = "trace" /\ snd[t].batch[1].channelId = "msteams"
        /\ snd[t].batch[2].type = "trace" /\ snd[t].batch[2].channelId = "emulator"
        /\ snd[t].responses = <<EmptyResponse, ResourceResponse(1)>>
        /\ Len(snd[t].calls) = 1

\* The last invokeResponse activity among the first n of a batch, 0 for none.
RECURSIVE LastInvokeResponse(_, _)
LastInvokeResponse(batch, n) ==
    IF n = 0 THEN 0
    ELSE IF batch[n].type = "invokeResponse" THEN n
    ELSE LastInvokeResponse(batch, n - 1)

\* C14: an invokeResponse activity gets no gateway call and never fails the
\* call, whatever its addressing; it gets an empty response, and the turn state
\* holds, under the invoke-response key, the whole activity last handled.
C14_InvokeResponseCached ==
    \A t \in Turns :
        LET s == snd[t]
            last == LastInvokeResponse(s.batch, Len(s.responses))
        IN /\ \A i \in 1..Len(s.batch) :
                s.batch[i].type = "invokeResponse" =>
                    /\ ~CalledFor(t, i)
                    /\ ~FailedAt(t, i)
                    /\ i <= Len(s.responses) => s.responses[i] = EmptyResponse
           /\ last > 0 => turnState[t] = s.batch[last]
           /\ turnState[t] # Undefined => turnState[t].type = "invokeResponse"

C14_Witness ==
    \E t \in Turns :
        /\ snd[t].result = "returned"
        /\ Len(snd[t].batch) = 2
        /\ snd[t].batch[1].type = "message"
        /\ snd[t].batch[2] = Outbound("invokeResponse",
                                      InvokeResponse(201, Obj("{ok:true}")),
                                      "", "", "", "")
        /\ turnState[t] = snd[t].batch[2]
        /\ snd[t].responses = <<ResourceResponse(1), EmptyResponse>>
        /\ Len(snd[t].calls) = 1

\* C15: every gateway call goes through a client bound to the serviceUrl of
\* the activity it is made for, to that activity's conversation: a
\* replyToActivity call addressed to its replyToId when it has one, a
\* sendToConversation call otherwise; an activity gets one call, not two.
C15_OwnServiceUrl ==
    \A t \in Turns :
        LET s == snd[t]
        IN /\ \A c \in 1..Len(s.calls) :
                LET a == s.batch[s.calls[c].activity]
                IN /\ s.calls[c].baseUri = a.serviceUrl
                   /\ s.calls[c].conversationId = a.conversationId
                   /\ IF a.replyToId # ""
                      THEN /\ s.calls[c].op = "replyToActivity"
                           /\ s.calls[c].activityId = a.replyToId
                      ELSE s.calls[c].op = "sendToConversation"
           /\ \A c, d \in 1..Len(s.calls) :
                s.calls[c].activity = s.calls[d].activity => c = d
           /\ \A i \in 1..Len(s.responses) :
                GoesToGateway(s.batch[i]) => CalledFor(t, i)

C15_Witness ==
    \E t \in Turns :
        /\ snd[t].result = "returned"
        /\ Len(snd[t].calls) = 2
        /\ snd[t].calls[1].op = "sendToConversation"
        /\ snd[t].calls[1].baseUri = Emulator
        /\ snd[t].calls[2].op = "replyToActivity"
        /\ snd[t].calls[2].baseUri = Gateway
        /\ snd[t].calls[2].activityId = "activity-1"

\* C16: an activity other than a delay and an invokeResponse that lacks
\* serviceUrl, conversation or conversation.id gets no gateway call and no
\* response; the loop does not go past it, and sendActivities fails with an
\* error when it comes to it.
C16_Unaddressed ==
    \A t \in Turns : \A i \in 1..Len(snd[t].batch) :
        LET a == snd[t].batch[i]
        IN (a.type \notin {"delay", "invokeResponse"} /\ LacksAddress(a)) =>
             /\ ~CalledFor(t, i)
             /\ Len(snd[t].responses) < i
             /\ snd[t].i <= i
             /\ snd[t].result # "returned"
             /\ (snd[t].i = i /\ pc[t] # "send") =>
                    /\ snd[t].result = "failed"
                    /\ snd[t].err.k = "Error"

C16_Witness ==
    \E t \in Turns :
        /\ FailedAt(t, 2)
        /\ snd[t].batch[1].type = "message"
        /\ snd[t].batch[2].type = "message"
        /\ ~snd[t].batch[2].conversation
        /\ snd[t].batch[2].serviceUrl # ""
        /\ Len(snd[t].calls) = 1
        /\ snd[t].err = Err("BotFrameworkAdapter.sendActivity(): missing conversation id.")

\* The turn runs createConversation.
Creating(t) == proactive[t] = "createConversation"

\* C17: createConversation with a reference without serviceUrl fails with an
\* error; no client is created and no create-conversation call is made, no
\* context is built, and neither a middleware nor the logic runs.
C17_MissingServiceUrl ==
    \A t \in Turns :
        (Creating(t) /\ reference[t].serviceUrl = "") =>
            /\ pc[t] = "rejected"
            /\ raised[t] =
                 Err("BotFrameworkAdapter.createConversation(): missing serviceUrl.")
            /\ created[t] = Undefined
            /\ ~built[t]
            /\ edges[t] = <<>>
            /\ snd[t] = NoSend

C17_Witness ==
    \E t \in Turns :
        /\ Creating(t)
        /\ reference[t] = Reference("", TRUE, "tenant-1")
        /\ pc[t] = "rejected"
        /\ raised[t] # Undefined

\* C18: in createConversation nothing of the chain runs before the gateway
\* has answered the create-conversation call, and nothing at all when the call
\* failed; the activity of the turn is an event named createConversation whose
\* conversation has the id the gateway returned and isGroup false, and whose
\* serviceUrl is the one the gateway returned, or the reference's when the
\* gateway returned none.
C18_AfterCreate ==
    \A t \in Turns :
        Creating(t) =>
            /\ (created[t] = Undefined \/ ~created[t].answered \/ created[t].failed) =>
                    /\ edges[t] = <<>>
                    /\ ~built[t]
            /\ (created[t] # Undefined /\ created[t].failed) =>
                    /\ pc[t] = "rejected"
                    /\ raised[t] # Undefined
            /\ built[t] =>
                    /\ created[t].answered /\ ~created[t].failed
                    /\ request[t].type = Str("event")
                    /\ request[t].name = "createConversation"
                    /\ request[t].conversation
                    /\ request[t].conversationId = created[t].response.id
                    /\ request[t].isGroup = FALSE
                    /\ request[t].serviceUrl =
                         IF created[t].response.serviceUrl # ""
                         THEN created[t].response.serviceUrl
                         ELSE reference[t].serviceUrl

C18_Witness ==
    \E t \in Turns :
        /\ Creating(t)
        /\ LogicRan(t)
        /\ reference[t].serviceUrl = Gateway
        /\ reference[t].isGroup
        /\ created[t].response.serviceUrl = "https://assigned"
        /\ request[t].serviceUrl = "https://assigned"
        /\ request[t].conversationId = "conv-new"

\* C19: the create-conversation request names the reference's bot, the
\* reference's user as its only member and isGroup false; when the reference's
\* conversation has a tenant id the request carries it in channelData.tenant.id
\* and in tenantId, and otherwise it carries neither.
C19_Parameters ==
    \A t \in Turns :
        (Creating(t) /\ created[t] # Undefined) =>
            LET p == created[t].parameters
                ref == reference[t]
            IN /\ p.members = <<ref.user>>
               /\ p.bot = ref.bot
               /\ p.isGroup = FALSE
               /\ IF ref.conversation /\ ref.tenantId # ""
                  THEN /\ p.channelData = [tenant |-> [id |-> Str(ref.tenantId)]]
                       /\ p.tenantId = Str(ref.tenantId)
                  ELSE /\ p.channelData = Null
                       /\ p.tenantId = Undefined

C19_Witness ==
    \E t \in Turns :
        /\ Creating(t)
        /\ pc[t] = "creating"
        /\ reference[t].tenantId = "tenant-1"
        /\ created[t].parameters.tenantId = Str("tenant-1")
        /\ created[t].parameters.channelData = [tenant |-> [id |-> Str("tenant-1")]]

\* C20: a turn run by continueConversation never calls the request
\* authenticator and writes no response; its activity is an event named
\* continueConversation addressed by the reference; its context is created and
\* the middleware chain is run, and with it the logic when no middleware but
\* the adapter's own is registered; the call rejects with the very error the
\* chain rejected with, and resolves when the chain resolved.
C20_Continue ==
    \A t \in Turns :
        proactive[t] = "continueConversation" =>
            /\ authCalls[t] = 0
            /\ verdict[t] = "none"
            /\ res[t] = <<>>
            /\ status[t] = 0
            /\ built[t]
            /\ request[t].type = Str("event")
            /\ request[t].name = "continueConversation"
            /\ request[t].serviceUrl = reference[t].serviceUrl
            /\ request[t].conversationId = reference[t].conversationId
            /\ pc[t] \in {"resolved", "rejected"} =>
                 /\ Len(edges[t]) >= 1
                 /\ edges[t][1] = <<"lead", 1>>
                 /\ raised[t] = thrown[t]
                 /\ pc[t] = "rejected" <=> thrown[t] # Undefined
                 /\ middleware = Constructed => LogicRan(t)

C20_Witness ==
    \E t \in Turns :
        /\ proactive[t] = "continueConversation"
        /\ pc[t] = "rejected"
        /\ LogicRan(t)
        /\ raised[t] = Err("logic failed")
        /\ res[t] = <<>>

\* The phase of processActivity that failed in the turn, "none" for no failure
\* so far: the parse, the authentication, or what runs after them.
FailedPhase(t) ==
    CASE pc[t] \in {"idle", "stream"} -> "none"
      [] pc[t] = "parsed" -> IF parsed[t].ok THEN "none" ELSE "parse"
      [] ~parsed[t].ok -> "parse"
      [] verdict[t] \in {"notAuthenticated", "fails"} -> "authenticate"
      [] caught[t] # Undefined -> "run"
      [] OTHER -> "none"

\* C26: nothing is tried twice. In a turn the authenticator is called at most
\* once, an activity of a batch gets at most one gateway call, and a gateway
\* call that failed has rejected the sendActivities call at that activity,
\* with the gateway's error and no further call.
C26_NoRetries ==
    \A t \in Turns :
        LET s == snd[t]
        IN /\ authCalls[t] <= 1
           /\ \A c, d \in 1..Len(s.calls) :
                s.calls[c].activity = s.calls[d].activity => c = d
           /\ \A c \in 1..Len(s.calls) :
                (Len(s.responses) < s.calls[c].activity /\ pc[t] # "gateway") =>
                    /\ c = Len(s.calls)
                    /\ s.result = "failed"
                    /\ s.err = Err("gateway call failed")
                    /\ s.i = s.calls[c].activity
                    /\ pc[t] = "logic"

C26_Witness ==
    \E t \in Turns :
        /\ authCalls[t] = 1
        /\ snd[t].result = "failed"
        /\ snd[t].err = Err("gateway call failed")
        /\ Len(snd[t].batch) = 2
        /\ snd[t].i = 1
        /\ Len(snd[t].calls) = 1
        /\ snd[t].batch[2].type = "message"

C30_NotInvoke ==
    \A t \in Turns :
        (/\ Responded(t)
         /\ caught[t] = Undefined
         /\ request[t].type # Str("invoke")) =>
            /\ status[t] = 200
            /\ body[t] = Undefined
            /\ res[t] = <<StatusCall(200), EndCall>>

C30_Witness ==
    \E t \in Turns :
        /\ Responded(t)
        /\ caught[t] = Undefined
        /\ request[t].type = Str("message")
        /\ turnState[t] # Undefined
        /\ turnState[t].value = InvokeResponse(409, Str("conflict"))
        /\ res[t] = <<StatusCall(200), EndCall>>

\* What the raw path makes of the chunks that serialize a value.
StreamOutcome(value) ==
    LET json == JSONparse(Text(JSONstringify(value)))
    IN IF json.ok THEN returnActivity(json.value)
       ELSE [ok |-> FALSE, activity |-> Undefined, err |-> json.err]

\* C27 as claimed: for every body value the parse of a request settles the
\* same way whether the value is on the request already or comes as the raw
\* chunks that serialize it: a request is never left waiting for a stream that
\* has nothing more to deliver, and the parse of a body settles as the raw
\* path settles for that body.
C27_SamePath ==
    \A t \in Turns :
        /\ pc[t] = "stream" => req[t].stream.k = "text"
        /\ (pc[t] = "parsed" /\ req[t].body # Undefined) =>
              parsed[t] = StreamOutcome(req[t].body)

\* The five user-token operations of the broker.
TokenOps ==
    {"getUserToken", "signOutUser", "getSignInLink", "getTokenStatus", "getAadTokens"}

\* The operation last begun has sent its request to the token service.
Requested == tok.call # Undefined

MissingUserError(op) ==
    Err("BotFrameworkAdapter." \o op \o "(): missing from or from.id")

\* The endpoint the adapter is configured with.
ConfiguredEndpoint ==
    IF settings.oAuthEndpoint # "" THEN settings.oAuthEndpoint
    ELSE IF settings.channelService = "https://botframework.azure.us"
    THEN "https://api.botframework.azure.us"
    ELSE "https://api.botframework.com"

\* C21 as claimed: every token-broker operation takes its user id from the
\* explicit userId argument when one is given and from the activity's from.id
\* otherwise; it fails with the missing-user error, and without a request to
\* the token service, exactly when neither is available.
C21_UserIdResolved ==
    tok.op \in TokenOps =>
        LET available == Truthy(tok.userId) \/ ~MissingFrom(tok.activity)
        IN /\ (tok.phase = "failed" /\ tok.err = MissingUserError(tok.op)) <=> ~available
           /\ tok.err = MissingUserError(tok.op) => ~Requested
           /\ (Requested /\ tok.op # "getSignInLink") =>
                 tok.call.userId = IF Truthy(tok.userId) THEN tok.userId
                                   ELSE Str(tok.activity.fromId)

\* C22: getUserToken returns undefined, and does not raise, when the token
\* service resolves with nothing, with a response without a token or with a
\* 404; it returns the response otherwise; it raises only for a missing
\* from.id, a missing connection name or a failure of the token service.
C22_AbsentResult ==
    tok.op = "getUserToken" =>
        /\ tok.phase = "returned" =>
              tok.result = IF \/ tok.reply = Undefined
                              \/ tok.reply.token = ""
                              \/ tok.reply.status = 404
                           THEN Undefined
                           ELSE tok.reply
        /\ tok.phase = "failed" =>
              \/ /\ tok.err = MissingUserError("getUserToken")
                 /\ MissingFrom(tok.activity)
                 /\ ~Requested
              \/ /\ tok.err = Err("getUserToken() requires a connectionName but none was provided.")
                 /\ ~Truthy(tok.connectionName)
                 /\ ~Requested
              \/ /\ tok.err = Err("token service failure")
                 /\ Requested

\* A 404 that carries a token has been answered, and getUserToken returned
\* undefined.
C22_Witness ==
    /\ tok.op = "getUserToken"
    /\ tok.phase = "returned"
    /\ tok.reply # Undefined
    /\ tok.reply.token = "tok"
    /\ tok.reply.status = 404
    /\ tok.result = Undefined

\* C23: a token-broker operation on an emulator-channel turn of an adapter
\* without app id or without app password sends its request to the activity's
\* serviceUrl, not to the configured, public or sovereign endpoint.
C23_EmulatorRedirect ==
    (/\ tok.op \in TokenOps
     /\ Requested
     /\ tok.activity.channelId = "emulator"
     /\ (settings.appId = "" \/ settings.appPassword = "")) =>
        /\ tok.call.baseUri = tok.activity.serviceUrl
        /\ tok.call.baseUri # ConfiguredEndpoint

\* An adapter with an app id, no password and an explicit oAuthEndpoint has
\* sent a sign-in-link request from an emulator turn.
C23_Witness ==
    /\ tok.op = "getSignInLink"
    /\ Requested
    /\ tok.activity.channelId = "emulator"
    /\ settings.appId = "app"
    /\ settings.appPassword = ""
    /\ settings.oAuthEndpoint # ""
    /\ tok.call.baseUri = "https://emulator"

\* C24 as claimed: when emulateOAuthCards has never been called with true, a
\* token-broker operation on a turn of another channel than the emulator sends
\* its request to the configured endpoint, whatever turns and operations came
\* before on the adapter.
C24_PerCall ==
    (/\ tok.op \in TokenOps
     /\ Requested
     /\ ~emulated
     /\ tok.activity.channelId # "emulator") =>
        tok.call.baseUri = ConfiguredEndpoint

\* C28 as claimed: emulateOAuthCards sends its toggle request to the URL it
\* was given, the string or the context's activity.serviceUrl, for emulate
\* true and false alike.
C28_ToggleTarget ==
    (tok.op = "emulateOAuthCards" /\ Requested) =>
        tok.call.baseUri = IF TypeOf(tok.target) = "object"
                           THEN tok.target.serviceUrl
                           ELSE tok.target.v

\* C25: calls are not serialized against each other. While one call waits in
\* a delay, every other call that has not settled can take its next step,
\* whatever that step is (parse, authentication, middleware, logic, dispatch,
\* response); in particular a call about to dispatch an activity dispatches
\* it, so that a gateway call is never postponed by another call's delay.
C25_NotSerialized ==
    \A t, u \in ConcurrentTurns :
        (t # u /\ pc[u] = "delay" /\ pc[t] \notin {"resolved", "rejected"}) =>
            /\ ENABLED TurnStep(t)
            /\ (pc[t] = "send" /\ snd[t].i <= Len(snd[t].batch)) =>
                  ENABLED (~Blocked(t) /\ SendActivity(t))
            /\ pc[t] = "gateway" => ENABLED (~Blocked(t) /\ GatewayReply(t, TRUE))

\* The first call still waits in the delay that opens its batch, having made
\* no gateway call, and the second call, which arrived during that wait, has
\* run its logic, whose sendActivities call (of a batch with a message for the
\* gateway) is over, has written its 200 and has resolved.
C25_Witness ==
    /\ pc[1] = "delay"
    /\ snd[1].i = 1
    /\ snd[1].batch[1].type = "delay"
    /\ snd[1].calls = <<>>
    /\ sendCalls[1] = 1
    /\ pc[2] = "resolved"
    /\ LogicRan(2)
    /\ sendCalls[2] = 1
    /\ snd[2] = NoSend
    /\ res[2] = <<StatusCall(200), EndCall>>

C32_NotAtomic ==
    \A t \in Turns :
        LET s == snd[t]
        IN s.result = "failed" =>
             /\ pc[t] = "logic"
             /\ IsError(s.err)
             /\ s.i \in 1..Len(s.batch)
             /\ Len(s.responses) = s.i - 1
             /\ \A j \in 1..(s.i - 1) : GoesToGateway(s.batch[j]) => CalledFor(t, j)
             /\ \A j \in (s.i + 1)..Len(s.batch) : ~CalledFor(t, j)
             /\ CalledFor(t, s.i) <=> s.err = Err("gateway call failed")
             /\ sendCalls[t] = 1 =>
                  LET last == LastInvokeResponse(s.batch, s.i - 1)
                  IN turnState[t] = IF last = 0 THEN Undefined ELSE s.batch[last]

\* A batch of two messages has failed at the second, which has no serviceUrl,
\* after the gateway call of the first.
C32_Witness ==
    \E t \in Turns :
        /\ FailedAt(t, 2)
        /\ snd[t].err = Err("BotFrameworkAdapter.sendActivity(): missing serviceUrl.")
        /\ snd[t].batch[1].type = "message"
        /\ CalledFor(t, 1)
        /\ Len(snd[t].calls) = 1
        /\ snd[t].responses = <<ResourceResponse(1)>>

\* C33: every invokeResponse activity a logic emits replaces the one cached
\* before it, and nothing else changes the cache, so that the status and body
\* of an invoke turn whose chain completed are those of the last invokeResponse
\* emitted; when that activity carries no value the turn is answered 501, as
\* when none was emitted.
C33_LastWins ==
    /\ [](\A t \in Turns :
            (/\ pc[t] \in Settled
             /\ built[t]
             /\ request[t].type = Str("invoke")
             /\ thrown[t] = Undefined) =>
                IF turnState[t] # Undefined /\ turnState[t].value # Undefined
                THEN /\ status[t] = turnState[t].value.status
                     /\ body[t] = turnState[t].value.body
                ELSE /\ status[t] = 501
                     /\ body[t] = Undefined)
    /\ [][\A t \in Turns :
            LET emits == /\ pc[t] = "send"
                         /\ snd[t].i <= Len(snd[t].batch)
                         /\ snd[t].batch[snd[t].i].type = "invokeResponse"
                         /\ snd'[t].i = snd[t].i + 1
            IN pc'[t] # "idle" =>
                 /\ emits => turnState'[t] = snd[t].batch[snd[t].i]
                 /\ turnState'[t] # turnState[t] => emits]_vars

\* An invoke turn in which several invokeResponse activities were emitted, the
\* last of them the 409, has answered 409 with its body.
C33_Witness ==
    \E t \in Turns :
        /\ Responded(t)
        /\ built[t]
        /\ request[t].type = Str("invoke")
        /\ emitted[t] = 2
        /\ turnState[t].value = InvokeResponse(409, Str("conflict"))
        /\ res[t] = <<StatusCall(409), SendCall(Str("conflict")), EndCall>>

\* C34: whether processActivity fails to its invoker depends on the final
\* status alone. A call is rejected exactly when its final status is >= 400;
\* so an invoke turn in which nothing threw, but whose status is that of a
\* cached invokeResponse >= 400 or the default 501, is rejected, after its
\* response was written.
C34_StatusDecides ==
    \A t \in Turns :
        /\ pc[t] \in {"resolved", "rejected"} =>
              (pc[t] = "rejected" <=> status[t] >= 400)
        /\ (/\ pc[t] \in {"resolved", "rejected"}
            /\ built[t]
            /\ request[t].type = Str("invoke")
            /\ thrown[t] = Undefined
            /\ caught[t] = Undefined
            /\ status[t] >= 400) =>
                /\ pc[t] = "rejected"
                /\ IsError(raised[t])
                /\ res[t][1] = StatusCall(status[t])
                /\ res[t][Len(res[t])] = EndCall

\* An invoke turn whose logic returned after emitting the 409 invokeResponse:
\* nothing threw, 409 and its body were written, and the call is rejected.
C34_Witness ==
    \E t \in Turns :
        /\ pc[t] = "rejected"
        /\ built[t]
        /\ request[t].type = Str("invoke")
        /\ LogicReturned(t)
        /\ thrown[t] = Undefined
        /\ caught[t] = Undefined
        /\ status[t] = 409
        /\ raised[t] = Err("conflict")
        /\ res[t] = <<StatusCall(409), SendCall(Str("conflict")), EndCall>>

\* C35: the emulation flag is a latch. It is false after construction. It
\* becomes true only in a call of emulateOAuthCards with true, or in a token
\* operation on an emulator-channel activity of an adapter without app id or
\* without app password; it becomes false only in a call of emulateOAuthCards
\* with false; and when the remote call of an operation returns or fails the
\* flag stays as the operation left it.
C35_Latch ==
    /\ isEmulatingOAuthCards = FALSE
    /\ [][/\ (~isEmulatingOAuthCards /\ isEmulatingOAuthCards') =>
                /\ tok.phase # "calling"
                /\ tok'.phase = "calling"
                /\ \/ tok'.op = "emulateOAuthCards" /\ tok'.emulate
                   \/ /\ tok'.op \in TokenOps
                      /\ tok'.activity.channelId = "emulator"
                      /\ (settings.appId = "" \/ settings.appPassword = "")
          /\ (isEmulatingOAuthCards /\ ~isEmulatingOAuthCards') =>
                /\ tok.phase # "calling"
                /\ tok'.phase = "calling"
                /\ tok'.op = "emulateOAuthCards"
                /\ ~tok'.emulate
          /\ tok.phase = "calling" =>
                isEmulatingOAuthCards' = isEmulatingOAuthCards
          /\ (tok'.op = "emulateOAuthCards" /\ tok.phase # "calling") =>
                isEmulatingOAuthCards' = tok'.emulate]_vars

\* The flag, set by an operation on an emulator turn and never by
\* emulateOAuthCards, is still set when an operation of a later turn on
\* another channel has returned.
C35_Witness ==
    /\ isEmulatingOAuthCards
    /\ ~emulated
    /\ tok.op \in TokenOps
    /\ tok.phase = "returned"
    /\ tok.activity.channelId = "msteams"

\* C36: the event activity of a createConversation turn, as the context holds
\* it for every middleware and for the logic, has a conversation without
\* tenant id and with conversationType and name null, whatever the reference's
\* conversation had; the tenant id of the reference went to the gateway in the
\* create-conversation request; the conversation id is the one the gateway
\* assigned, not the reference's.
C36_FreshConversation ==
    \A t \in Turns :
        (Creating(t) /\ built[t]) =>
            /\ request[t].tenantId = ""
            /\ request[t].conversationType = Null
            /\ request[t].conversationName = Null
            /\ request[t].conversationId = created[t].response.id
            /\ request[t].conversationId # reference[t].conversationId
            /\ (reference[t].conversation /\ reference[t].tenantId # "") =>
                  created[t].parameters.tenantId = Str(reference[t].tenantId)

\* The logic of a createConversation turn has run on an activity without
\* tenant id, for a reference whose conversation had tenant id, type and name.
C36_Witness ==
    \E t \in Turns :
        /\ Creating(t)
        /\ LogicRan(t)
        /\ reference[t].tenantId = "tenant-1"
        /\ reference[t].conversationType = Str("channel")
        /\ reference[t].conversationId = "conv"
        /\ created[t].parameters.tenantId = Str("tenant-1")
        /\ request[t].tenantId = ""
        /\ request[t].conversationType = Null
        /\ request[t].conversationId = "conv-new"

\* C37 as claimed: when the authenticator, the middleware chain, the logic,
\* the gateway and the delays all answer in the end, every processActivity
\* call gets to the end of its response, on the raw-stream path and for every
\* body the transport has parsed, falsy ones included.
C37_Completes ==
    \A t \in Turns : (pc[t] # "idle") ~> Responded(t)

\* C38: the invoke-response cache is per turn. With two calls interleaved on
\* one adapter, an invoke turn whose chain completed is answered with the
\* InvokeResponse its own logic emitted, or with 501 when its own logic
\* emitted none, whatever the other turn emitted; a message turn is answered
\* 200; and no step of one call changes the cache, the status or the body of
\* the other call.
C38_PerTurn ==
    /\ [](\A t \in ConcurrentTurns :
            (/\ pc[t] \in Settled
             /\ built[t]
             /\ thrown[t] = Undefined) =>
                IF request[t].type # Str("invoke")
                THEN status[t] = 200
                ELSE IF emitted[t] = 0
                THEN /\ turnState[t] = Undefined
                     /\ status[t] = 501
                     /\ body[t] = Undefined
                ELSE /\ turnState[t] # Undefined
                     /\ turnState[t].value = InvokeAnswer(t)
                     /\ status[t] = InvokeAnswer(t).status
                     /\ body[t] = InvokeAnswer(t).body)
    /\ [][\A t \in ConcurrentTurns :
            (\/ turnState'[t] # turnState[t]
             \/ status'[t] # status[t]
             \/ body'[t] # body[t]) =>
                (pc'[t] # pc[t] \/ snd'[t] # snd[t])]_vars

\* Two invoke turns are under way at once: the logic of call 2 has emitted
\* its 409 and is still sending, with the 409 in the cache of its context,
\* while call 1, whose logic emitted nothing, has its final status, 501.
C38_Witness ==
    /\ built[1] /\ built[2]
    /\ request[1].type = Str("invoke")
    /\ request[2].type = Str("invoke")
    /\ pc[2] = "send"
    /\ emitted[2] > 0
    /\ turnState[2] # Undefined
    /\ turnState[2].value = InvokeResponse(409, Str("conflict"))
    /\ pc[1] = "respond"
    /\ thrown[1] = Undefined
    /\ emitted[1] = 0
    /\ status[1] = 501

====
